---- MODULE Spec2Model ----
(***************************************************************************)
(* Test run generation of temare: TestRunGenerator (src/src/generator.py)  *)
(* working on the schedule database (src/src/dbops.py, src/src/initdb.py). *)
(* The catalog tables image, test and subject are fixed; the host row, the *)
(* rotation pointers and the is_done flags of the two schedule tables are  *)
(* the persisted state; the generator object is the in-memory state.       *)
(***************************************************************************)
EXTENDS Integers, Sequences, FiniteSets, TLC

(* ------------------------------ bounds --------------------------------- *)

\* host_cores of the modelled host is drawn from mincores..MaxHostCores
MaxHostCores == 2

\* do_finalize is called at most this often on one generator
MaxFinalize == 2

\* consecutive single-candidate runs of one vendor are counted up to this
MaxStreak == 3

\* rows of one schedule table for the same (target, test, image)
MaxCopies == 2

\* host_memory values offered to "hostadd" (one is below minmem and rejected)
MemorySamples == {512, 1024, 2100, 3072, 5376}

(* ------------------------- program constants --------------------------- *)

minmem == 1024
maxmem == 98304
mincores == 1
maxcores == 64

\* dom0 reservation and control-domain core slot of get_host_info
HostReserve == 1024
ExtraCores == 1

\* sizing constants of get_test_config / gen_tests
MemStep == 256
MinGuestMem == 1024
BigMemLimit == 4096
HapLimit == 3840

(* --------------------------- catalog tables ---------------------------- *)

\* table test: test_id -> row
test ==
  << [test_name |-> "CTCS",      test_command |-> "run_cerberus",
      os_type_id |-> 1],
     [test_name |-> "kernbench", test_command |-> "loop_kernbench",
      os_type_id |-> 1],
     [test_name |-> "WinSST",    test_command |-> "run_sst.bat",
      os_type_id |-> 2] >>

\* table os_type: os_type_id -> os_type_name, a string of characters
os_type ==
  << <<"L", "i", "n", "u", "x">>,
     <<"W", "i", "n", "d", "o", "w", "s">> >>

\* table image: image_id -> row (image_name is UNIQUE); the is_enabled
\* column is kept in the variable image_enabled
image ==
  << [image_name |-> "imgA", image_format |-> "raw", vendor_id |-> 1, os_type_id |-> 1,
      is_64bit |-> 0, is_bigmem |-> 0, is_smp |-> 0],
     [image_name |-> "imgB", image_format |-> "qcow", vendor_id |-> 1, os_type_id |-> 2,
      is_64bit |-> 0, is_bigmem |-> 1, is_smp |-> 0],
     [image_name |-> "imgC", image_format |-> "qcow", vendor_id |-> 2, os_type_id |-> 2,
      is_64bit |-> 1, is_bigmem |-> 1, is_smp |-> 1],
     [image_name |-> "imgD", image_format |-> "raw", vendor_id |-> 3, os_type_id |-> 2,
      is_64bit |-> 0, is_bigmem |-> 0, is_smp |-> 1] >>

\* table subject: subject_id -> row (last_vendor_id and is_enabled are kept
\* in variables)
subject ==
  << [subject_name |-> "xen-unstable", is_64bit |-> 0],
     [subject_name |-> "xen-unstable", is_64bit |-> 1] >>

HostId == 1
SubjectIds == DOMAIN subject
ImageIds == DOMAIN image

\* is_enabled columns of table image the model starts from: the images as
\* added with imgD disabled by "imagestate", and all images disabled
EnabledSamples ==
  {[i \in ImageIds |-> IF image[i].image_name = "imgD" THEN 0 ELSE 1],
   [i \in ImageIds |-> 0]}

\* is_enabled columns of table subject the model starts from: one of the
\* subjects enabled by "subjectstate", and both subjects disabled as
\* "subjectadd" leaves them
SubjectEnabledSamples ==
  {[s \in SubjectIds |-> IF subject[s].is_64bit = 1 THEN 1 ELSE 0],
   [s \in SubjectIds |-> IF subject[s].is_64bit = 0 THEN 1 ELSE 0],
   [s \in SubjectIds |-> 0]}

\* FROM image LEFT JOIN test ON test.os_type_id=image.os_type_id
AllPairs ==
  [k \in 1..(Len(image) * Len(test)) |->
     [image_id |-> ((k - 1) \div Len(test)) + 1,
      test_id  |-> ((k - 1) % Len(test)) + 1]]

JoinPairs ==
  SelectSeq(AllPairs,
            LAMBDA p : test[p.test_id].os_type_id = image[p.image_id].os_type_id)

\* rows of host_schedule for the host: (host_id, test_id, image_id), is_done 0
HostScheduleRows ==
  [k \in 1..Len(JoinPairs) |->
     [target_id |-> HostId, test_id |-> JoinPairs[k].test_id,
      image_id |-> JoinPairs[k].image_id]]

\* rows of subject_schedule, one block per subject
SubjectScheduleRows ==
  [k \in 1..(Len(subject) * Len(JoinPairs)) |->
     [target_id |-> ((k - 1) \div Len(JoinPairs)) + 1,
      test_id   |-> JoinPairs[((k - 1) % Len(JoinPairs)) + 1].test_id,
      image_id  |-> JoinPairs[((k - 1) % Len(JoinPairs)) + 1].image_id]]

\* table host of a database with two hosts: host_id -> row (last_vendor_id
\* is kept in a variable); both hosts are enabled
PairHosts ==
  << [host_name |-> "bullock", host_memory |-> 3072, host_cores |-> 1,
      is_64bit |-> 0],
     [host_name |-> "uruk", host_memory |-> 2100, host_cores |-> 2,
      is_64bit |-> 1] >>

PairIds == DOMAIN PairHosts

\* rows of host_schedule of that database, one block per host
PairScheduleRows ==
  [k \in 1..(Len(PairHosts) * Len(JoinPairs)) |->
     [target_id |-> ((k - 1) \div Len(JoinPairs)) + 1,
      test_id   |-> JoinPairs[((k - 1) % Len(JoinPairs)) + 1].test_id,
      image_id  |-> JoinPairs[((k - 1) % Len(JoinPairs)) + 1].image_id]]

(* ------------------------------- checks -------------------------------- *)

chk_memory(memory) == memory >= minmem /\ memory <= maxmem

chk_cores(cores) == cores >= mincores /\ cores <= maxcores

(* ------------------------------ variables ------------------------------ *)

VARIABLES
  host,              \* the host row of table host
  image_enabled,     \* image_id -> is_enabled of table image
  subject_enabled,   \* subject_id -> is_enabled of table subject
  subject_last,      \* subject_id -> last_vendor_id of table subject
  host_done,         \* schedule_id -> is_done of table host_schedule
  subject_done,      \* schedule_id -> is_done of table subject_schedule
  command,           \* the command in use ("hostprep" or "subjectprep") and
                     \* the host name of its last call
  pc,                \* position of the caller / generator
  schedule,          \* TestRunGenerator.schedule: "host" or "subject"
  gsubject,          \* TestRunGenerator.subject: [id, bitness]
  resources,         \* TestRunGenerator.resources
  tests,             \* TestRunGenerator.tests
  vendor,            \* vendor returned by get_vendor inside get_test
  err,               \* message of the error that ended the run, or ""
  finalized,         \* number of do_finalize calls on this generator
  before,            \* the persisted flags and pointers when the run started
  hist,              \* observer of the finalized runs (no program state)
  db,                \* the tables as the add and delete commands edit them
  cstore,            \* two hosts: last_vendor_id of table host and is_done of
                     \* table host_schedule
  crun,              \* two hosts: host_id -> the generator of its thread
  cref,              \* two hosts: host_id -> the store of the execution in
                     \* which the run of this host meets the other host's
                     \* rows in another state (no program state)
  world,             \* hostprep: host name -> what ssh, the resolver and the
                     \* database answer for it
  prep,              \* hostprep: HostPrepCommand.do_command
  thread,            \* hostprep: host name -> its preparation thread
  precondition,      \* the precondition gen_precondition_xen returned last
  weigh,             \* get_test after its query: the rows fetched, the lists
                     \* handed to do_weighing and the row it returned
  pipeline,          \* run of a host preparation thread: its kind and the
                     \* number of stages that have succeeded
  queue              \* subjectstate: the external queues and what the last
                     \* command did

store == <<host, image_enabled, subject_enabled, subject_last, host_done,
          subject_done>>
genvars == <<host, image_enabled, subject_enabled, subject_last, host_done,
             subject_done, command, pc, schedule, gsubject, resources, tests,
             vendor, err, finalized, before, hist>>
\* what a test run generation leaves alone
pairvars == <<cstore, crun, cref>>
prepvars == <<world, prep, thread>>
extra == <<precondition, weigh, pipeline, queue>>
others == <<db, pairvars, prepvars, extra>>
vars == <<genvars, others>>

(* ------------------------------- helpers ------------------------------- *)

Min(S) == CHOOSE x \in S : \A y \in S : x <= y

\* random.randrange(start, stop, step) for step > 0: the values it can return
randrange(start, stop, step) ==
  IF stop <= start THEN {}
  ELSE {start + k * step : k \in 0..((stop - start - 1) \div step)}

\* random.randint(a, b)
randint(a, b) == a..b

\* the schedule table the generator works on, and its is_done column
\* ("hostpair" is table host_schedule of the database with two hosts)
SchedRows(sch) ==
  IF sch = "host" THEN HostScheduleRows
  ELSE IF sch = "hostpair" THEN PairScheduleRows
  ELSE SubjectScheduleRows
DoneOf(sch) == IF sch = "host" THEN host_done ELSE subject_done

\* mutant of idvalue: the id of the host is used in subject mode as well
idvalue_AlwaysHost == HostId

\* idvalue of get_vendor / get_test
idvalue == IF schedule = "host" THEN HostId ELSE gsubject.id

\* is_64bit of the joined target row (%s.is_64bit of the queries)
TargetBit(sch, id) ==
  IF sch = "host" THEN host.is_64bit
  ELSE IF sch = "hostpair" THEN PairHosts[id].is_64bit
  ELSE subject[id].is_64bit

\* imagevalue: the image names already used in this run
imagevalue == {tests[i].image : i \in 1..Len(tests)}

\* mutant of Matching: the %s.is_64bit>=image.is_64bit condition is left out
Matching_NoBitness(sch, id, used) ==
  {k \in DOMAIN SchedRows(sch) :
     /\ SchedRows(sch)[k].target_id = id
     /\ image_enabled[SchedRows(sch)[k].image_id] = 1
     /\ image[SchedRows(sch)[k].image_id].image_name \notin used}

\* mutant of Matching: the %s_schedule.%s_id=? condition is left out
Matching_AnyTarget(sch, id, used) ==
  {k \in DOMAIN SchedRows(sch) :
     /\ TargetBit(sch, id) >= image[SchedRows(sch)[k].image_id].is_64bit
     /\ image_enabled[SchedRows(sch)[k].image_id] = 1
     /\ image[SchedRows(sch)[k].image_id].image_name \notin used}

\* mutant of Matching: the image_name NOT IN (...) condition is left out
Matching_NoExclusion(sch, id, used) ==
  {k \in DOMAIN SchedRows(sch) :
     /\ SchedRows(sch)[k].target_id = id
     /\ TargetBit(sch, id) >= image[SchedRows(sch)[k].image_id].is_64bit
     /\ image_enabled[SchedRows(sch)[k].image_id] = 1}

\* the WHERE clause shared by the queries of get_vendor and get_test:
\*   %s.is_64bit>=image.is_64bit AND image.is_enabled=1
\*   AND %s_schedule.%s_id=? [AND image_name NOT IN (...)]
Matching(sch, id, used) ==
  {k \in DOMAIN SchedRows(sch) :
     /\ SchedRows(sch)[k].target_id = id
     /\ TargetBit(sch, id) >= image[SchedRows(sch)[k].image_id].is_64bit
     /\ image_enabled[SchedRows(sch)[k].image_id] = 1
     /\ image[SchedRows(sch)[k].image_id].image_name \notin used}

VendorOf(sch, k) == image[SchedRows(sch)[k].image_id].vendor_id

\* mutant of FindVendor: the first query (with vendor_id>?) is missing
FindVendor_IgnoresLast(sch, id, used, lastvendor) ==
  LET vs == {VendorOf(sch, k) : k \in Matching(sch, id, used)}
  IN  IF vs # {} THEN Min(vs) ELSE 0

\* mutant of FindVendor: the second query (without vendor_id>?) is missing
FindVendor_NoWrap(sch, id, used, lastvendor) ==
  LET vs == {VendorOf(sch, k) : k \in Matching(sch, id, used)}
      gt == {v \in vs : v > lastvendor}
  IN  IF gt # {} THEN Min(gt) ELSE 0

\* get_vendor, "Try to find a vendor": smallest vendor_id > lastvendor,
\* else smallest vendor_id, else 0
FindVendor(sch, id, used, lastvendor) ==
  LET vs == {VendorOf(sch, k) : k \in Matching(sch, id, used)}
      gt == {v \in vs : v > lastvendor}
  IN  IF gt # {} THEN Min(gt)
      ELSE IF vs # {} THEN Min(vs)
      ELSE 0

\* mutant of FlagQuery: the is_done condition is left out of the queries
FlagQuery_IgnoresFlag(sch, id, done, flag, v, used) ==
  {k \in Matching(sch, id, used) : VendorOf(sch, k) = v}

\* get_vendor, "Check is_done flags": the schedule ids of the flag query
FlagQuery(sch, id, done, flag, v, used) ==
  {k \in Matching(sch, id, used) : done[k] = flag /\ VendorOf(sch, k) = v}

\* get_vendor: TRUE when random.choice gets an empty list in the unlock branch
UnlockFails(sch, id, done, v, used) ==
  /\ FlagQuery(sch, id, done, 0, v, used) = {}
  /\ FlagQuery(sch, id, done, 0, v, {}) # {}
  /\ FlagQuery(sch, id, done, 1, v, used) = {}

\* mutant of FairnessOutcomes: the flags of an exhausted vendor are not reset
FairnessOutcomes_NoReset(sch, id, done, v, used) ==
  IF FlagQuery(sch, id, done, 0, v, used) # {}
  THEN {done}
  ELSE IF FlagQuery(sch, id, done, 0, v, {}) # {}
       THEN {[done EXCEPT ![r] = 0] : r \in FlagQuery(sch, id, done, 1, v, used)}
       ELSE {done}

\* mutant of FairnessOutcomes: the unlock branch resets every done entry of
\* an unused image instead of one
FairnessOutcomes_UnlockAll(sch, id, done, v, used) ==
  IF FlagQuery(sch, id, done, 0, v, used) # {}
  THEN {done}
  ELSE IF FlagQuery(sch, id, done, 0, v, {}) # {}
       THEN {[k \in DOMAIN done |->
                IF k \in FlagQuery(sch, id, done, 1, v, used) THEN 0
                ELSE done[k]]}
       ELSE {[k \in DOMAIN done |->
                IF k \in FlagQuery(sch, id, done, 1, v, {}) THEN 0 ELSE done[k]]}

\* mutant of FairnessOutcomes: the check for a not-done entry of an unused
\* image is left out, an entry is unlocked whenever one can be
FairnessOutcomes_AlwaysUnlock(sch, id, done, v, used) ==
  IF FlagQuery(sch, id, done, 0, v, {}) # {}
  THEN IF FlagQuery(sch, id, done, 1, v, used) # {}
       THEN {[done EXCEPT ![r] = 0] : r \in FlagQuery(sch, id, done, 1, v, used)}
       ELSE {done}
  ELSE {[k \in DOMAIN done |->
           IF k \in FlagQuery(sch, id, done, 1, v, {}) THEN 0 ELSE done[k]]}

\* get_vendor: the is_done columns the fairness step can leave behind
FairnessOutcomes(sch, id, done, v, used) ==
  IF FlagQuery(sch, id, done, 0, v, used) # {}
  THEN {done}
  ELSE IF FlagQuery(sch, id, done, 0, v, {}) # {}
       THEN {[done EXCEPT ![r] = 0] : r \in FlagQuery(sch, id, done, 1, v, used)}
       ELSE {[k \in DOMAIN done |->
                IF k \in FlagQuery(sch, id, done, 1, v, {}) THEN 0 ELSE done[k]]}

(* ------------------------ picking and sizing --------------------------- *)

\* get_test: the four lists are bound to ONE list object
\*   smallup = smallsmp = bigup = bigsmp = []
\* so a row appended to any of them is in all of them
Buckets(sch, rows) ==
  LET appended == {k \in rows :
                     /\ image[SchedRows(sch)[k].image_id].is_bigmem \in {0, 1}
                     /\ image[SchedRows(sch)[k].image_id].is_smp \in {0, 1}}
  IN  [smallup |-> appended, smallsmp |-> appended,
       bigup |-> appended, bigsmp |-> appended]

\* mutant of do_weighing: with more than one core the list of the small
\* uniprocessor rows is tried before the list of the small SMP rows
do_weighing_UpFirst(memory, cores, smallup, smallsmp, bigup, bigsmp) ==
  IF memory > BigMemLimit /\ (bigup \cup bigsmp) # {}
  THEN IF cores > 1 /\ bigsmp # {} THEN bigsmp
       ELSE IF cores = 1 /\ bigup # {} THEN bigup
       ELSE bigup \cup bigsmp
  ELSE IF cores > 1 /\ smallup # {} THEN smallup
  ELSE IF cores > 1 /\ smallsmp # {} THEN smallsmp
  ELSE IF cores > 1 /\ bigsmp # {} THEN bigsmp
  ELSE IF cores = 1 /\ smallup # {} THEN smallup
  ELSE IF cores = 1 /\ bigup # {} THEN bigup
  ELSE IF cores = 1 /\ smallsmp # {} THEN smallsmp
  ELSE smallup \cup smallsmp \cup bigup \cup bigsmp

\* do_weighing: the list random.choice draws from (as a set of schedule ids)
do_weighing(memory, cores, smallup, smallsmp, bigup, bigsmp) ==
  IF memory > BigMemLimit /\ (bigup \cup bigsmp) # {}
  THEN IF cores > 1 /\ bigsmp # {} THEN bigsmp
       ELSE IF cores = 1 /\ bigup # {} THEN bigup
       ELSE bigup \cup bigsmp
  ELSE IF cores > 1 /\ smallsmp # {} THEN smallsmp
  ELSE IF cores > 1 /\ smallup # {} THEN smallup
  ELSE IF cores > 1 /\ bigsmp # {} THEN bigsmp
  ELSE IF cores = 1 /\ smallup # {} THEN smallup
  ELSE IF cores = 1 /\ bigup # {} THEN bigup
  ELSE IF cores = 1 /\ smallsmp # {} THEN smallsmp
  ELSE smallup \cup smallsmp \cup bigup \cup bigsmp

\* mutant of CoresChoices: the smp flag of the image is not looked at
CoresChoices_IgnoresSmp(cores, smp) ==
  IF cores = 1 THEN {1} ELSE randint(2, cores)

\* mutant of MemoryChoices: the branch for images that are not bigmem is
\* missing
MemoryChoices_NoCap(memory, bigmem) ==
  IF memory > BigMemLimit /\ bigmem = 1
  THEN randrange(BigMemLimit, memory + MemStep, MemStep)
  ELSE randrange(MinGuestMem, memory + MemStep, MemStep)

\* mutant of CoresChoices: the upper limit of randint is one too high
CoresChoices_OffByOne(cores, smp) ==
  IF cores = 1 \/ smp = 0 THEN {1} ELSE randint(2, cores + 1)

\* get_test_config: the core counts it can assign
CoresChoices(cores, smp) ==
  IF cores = 1 \/ smp = 0 THEN {1} ELSE randint(2, cores)

\* get_test_config: the memory sizes it can assign
MemoryChoices(memory, bigmem) ==
  IF memory > BigMemLimit /\ bigmem = 1
  THEN randrange(BigMemLimit, memory + MemStep, MemStep)
  ELSE IF memory > BigMemLimit
       THEN randrange(MinGuestMem, BigMemLimit + MemStep, MemStep)
       ELSE randrange(MinGuestMem, memory + MemStep, MemStep)

\* mutant of Hap: the comparison with 3840 is not strict
Hap_NotStrict(memory, bitness) ==
  IF memory >= HapLimit /\ bitness = 0 THEN 0 ELSE 1

\* get_test_config: hap
Hap(memory, bitness) == IF memory > HapLimit /\ bitness = 0 THEN 0 ELSE 1

\* get_test_config: int(round(memory * 10 / 1024)) with Python 2 integer division
ShadowMem(memory) == (memory * 10) \div 1024

\* the address gethostbyname returns for the host
HostIp == <<10, 0, 7, 42>>

\* mutant of gen_macaddr: the slice takes the first two numbers of the
\* host address
gen_macaddr_FirstNumbers(guestid) ==
  <<82, 84, 0, HostIp[1], HostIp[2], guestid>>

\* gen_macaddr: 52:54:00 and the last two numbers of the host address, then
\* the guest id
gen_macaddr(guestid) == <<82, 84, 0, HostIp[3], HostIp[4], guestid>>

\* the dictionary gen_tests appends for schedule row k
TestDict(sch, k, cores, memory, bitness, count) ==
  LET img == image[SchedRows(sch)[k].image_id]
  IN  [id |-> k, image |-> img.image_name, format |-> img.image_format,
       test |-> test[SchedRows(sch)[k].test_id].test_name,
       testcommand |-> test[SchedRows(sch)[k].test_id].test_command,
       macaddr |-> gen_macaddr(count + 1),
       bigmem |-> img.is_bigmem, smp |-> img.is_smp, bitness |-> img.is_64bit,
       cores |-> cores, memory |-> memory,
       shadowmem |-> ShadowMem(memory), hap |-> Hap(memory, bitness),
       vnc |-> count, runid |-> count + 1]

(* ------------------------------- lookups ------------------------------- *)

\* mutant of AutoSubject: the first query (with subject_id>?) is missing
AutoSubject_IgnoresLast(lastsubject) ==
  LET cand == {s \in SubjectIds :
                 /\ subject_enabled[s] = 1
                 /\ \E k \in DOMAIN SubjectScheduleRows :
                      SubjectScheduleRows[k].target_id = s}
  IN  IF cand # {} THEN Min(cand) ELSE 0

\* get_subject_info, automatic rotation: the subject the two queries return
AutoSubject(lastsubject) ==
  LET cand == {s \in SubjectIds :
                 /\ subject_enabled[s] = 1
                 /\ \E k \in DOMAIN SubjectScheduleRows :
                      SubjectScheduleRows[k].target_id = s}
      gt == {s \in cand : s > lastsubject}
  IN  IF gt # {} THEN Min(gt)
      ELSE IF cand # {} THEN Min(cand)
      ELSE 0

\* get_subject_info, named subject: the subjects the query can return
NamedSubjects(name, bitness) ==
  {s \in SubjectIds :
     /\ subject_enabled[s] = 1
     /\ subject[s].subject_name = name
     /\ subject[s].is_64bit = bitness
     /\ \E k \in DOMAIN SubjectScheduleRows :
          SubjectScheduleRows[k].target_id = s}

\* the flags and pointers a run can change
Snapshot == [host_last_vendor |-> host.last_vendor_id,
             host_last_subject |-> host.last_subject_id,
             subject_last |-> subject_last,
             host_done |-> host_done,
             subject_done |-> subject_done]

\* Python None in an integer field
None == -1

NoSubject == [id |-> None, bitness |-> None]
NoResources == [memory |-> 0, cores |-> 0, bitness |-> 0,
                lastvendor |-> 0, lastsubject |-> 0]

(* ------------------- the add and delete commands --------------------- *)

\* the names the commands are called with; a row is known by the unique
\* key of its table, its AUTOINCREMENT id is never given to another row
DbHosts == {"bullock"}
DbSubjects == {<<"xen-unstable", 0>>, <<"xen-unstable", 1>>}
DbVendors == {"RedHat", "SuSE"}
DbOsTypes == {"Linux", "Windows"}
DbImages == {"imgA", "imgB"}
DbTests == {"CTCS"} \X DbOsTypes

\* a schedule table: (target, test, image) -> number of rows
HostTriples == DbHosts \X DbTests \X DbImages
SubjectTriples == DbSubjects \X DbTests \X DbImages
AllTriples == HostTriples \cup SubjectTriples

\* the tables init_database() creates
EmptyDb ==
  [host |-> {}, subject |-> {}, vendor |-> {}, os_type |-> {},
   image |-> [i \in {} |-> 0], test |-> {},
   host_schedule |-> [k \in HostTriples |-> 0],
   subject_schedule |-> [k \in SubjectTriples |-> 0]]

\* the rows of "target LEFT JOIN image LEFT JOIN test ON test.os_type_id =
\* image.os_type_id" with none of the three ids NULL
Joined(d, targets, k) ==
  /\ k[1] \in targets
  /\ k[2] \in d.test
  /\ k[3] \in DOMAIN d.image
  /\ k[2][2] = d.image[k[3]].os_type

\* INSERT INTO <schedule> SELECT ... of the rows of the join the WHERE
\* clause keeps ("sel" is the set of triples it keeps)
InsertRows(d, sched, targets, sel) ==
  [k \in DOMAIN sched |->
     IF Joined(d, targets, k) /\ k \in sel THEN sched[k] + 1 ELSE sched[k]]

\* DELETE FROM <schedule> WHERE ... ("sel" is the set of triples it names)
DeleteRows(sched, sel) ==
  [k \in DOMAIN sched |-> IF k \in sel THEN 0 ELSE sched[k]]

Restrict(f, S) == [x \in S |-> f[x]]

HostsAdd(d, hostname) ==
  LET d1 == [d EXCEPT !.host = @ \cup {hostname}]
      SameHost == {k \in AllTriples : k[1] = hostname}
  IN  [d1 EXCEPT !.host_schedule =
                    InsertRows(d1, @, d1.host, SameHost)]

HostsDelete(d, hostname) ==
  LET SameHost == {k \in AllTriples : k[1] = hostname}
  IN  [d EXCEPT !.host_schedule = DeleteRows(@, SameHost),
                !.host = @ \ {hostname}]

ImagesAdd(d, imagename, vendorname, ostype) ==
  LET row == [vendor |-> vendorname, os_type |-> ostype]
      d1 == [d EXCEPT !.image =
                        [i \in DOMAIN @ \cup {imagename} |->
                           IF i = imagename THEN row ELSE @[i]]]
      SameImage == {k \in AllTriples : k[3] = imagename}
  IN  [d1 EXCEPT !.host_schedule =
                    InsertRows(d1, @, d1.host, SameImage),
                 !.subject_schedule =
                    InsertRows(d1, @, d1.subject, SameImage)]

\* the three DELETE statements of Images.delete, for a set of images
DeleteImages_KeepsSubjectSchedule(d, images) ==
  LET InList == {k \in AllTriples : k[3] \in images}
  IN  [d EXCEPT !.host_schedule = DeleteRows(@, InList),
                !.image = Restrict(@, DOMAIN @ \ images)]

DeleteImages(d, images) ==
  LET InList == {k \in AllTriples : k[3] \in images}
  IN  [d EXCEPT !.host_schedule = DeleteRows(@, InList),
                !.subject_schedule = DeleteRows(@, InList),
                !.image = Restrict(@, DOMAIN @ \ images)]

ImagesDelete(d, imagename) == DeleteImages(d, {imagename})

OsTypesAdd(d, ostype) == [d EXCEPT !.os_type = @ \cup {ostype}]

OsTypesDelete(d, ostype) ==
  LET imagelist == {i \in DOMAIN d.image : d.image[i].os_type = ostype}
      d1 == DeleteImages(d, imagelist)
  IN  [d1 EXCEPT !.test = {t \in @ : t[2] # ostype},
                 !.os_type = @ \ {ostype}]

TestsAdd(d, testname, ostype) ==
  LET d1 == [d EXCEPT !.test = @ \cup {<<testname, ostype>>}]
      SameTest == {k \in AllTriples : k[2] = <<testname, ostype>>}
  IN  [d1 EXCEPT !.host_schedule =
                    InsertRows(d1, @, d1.host, SameTest),
                 !.subject_schedule =
                    InsertRows(d1, @, d1.subject, SameTest)]

TestsDelete(d, testname, ostype) ==
  LET SameTest == {k \in AllTriples : k[2] = <<testname, ostype>>}
  IN  [d EXCEPT !.host_schedule = DeleteRows(@, SameTest),
                !.subject_schedule = DeleteRows(@, SameTest),
                !.test = @ \ {<<testname, ostype>>}]

\* the INSERT keeps the rows "WHERE subject_name=?": those of every
\* subject of that name, whatever its bitness
TestSubjectsAdd(d, subjname, bitness) ==
  LET d1 == [d EXCEPT !.subject = @ \cup {<<subjname, bitness>>}]
      SameName == {k \in AllTriples : k[1][1] = subjname}
  IN  [d1 EXCEPT !.subject_schedule =
                    InsertRows(d1, @, d1.subject, SameName)]

TestSubjectsDelete(d, subjname, bitness) ==
  LET SameSubject == {k \in AllTriples : k[1] = <<subjname, bitness>>}
  IN  [d EXCEPT !.subject_schedule = DeleteRows(@, SameSubject),
                !.subject = @ \ {<<subjname, bitness>>}]

VendorsAdd(d, vendorname) == [d EXCEPT !.vendor = @ \cup {vendorname}]

VendorsDelete(d, vendorname) ==
  LET imagelist == {i \in DOMAIN d.image : d.image[i].vendor = vendorname}
      d1 == DeleteImages(d, imagelist)
  IN  [d1 EXCEPT !.vendor = @ \ {vendorname}]

\* the rows of one triple stay countable
Countable(d) ==
  /\ \A k \in HostTriples : d.host_schedule[k] <= MaxCopies
  /\ \A k \in SubjectTriples : d.subject_schedule[k] <= MaxCopies

(* -------------------------------- Init --------------------------------- *)

\* no finalized run has been observed
NoStreak == [schedule |-> "host", target |-> 0, vendor |-> 0, runs |-> 0]
NoHistory(observe) ==
  [observe |-> observe, everdone |-> {}, streak |-> NoStreak]

\* the database after "hostadd" and "subjectadd": pointers 0, nothing done
InitStore ==
  /\ \E m \in {x \in MemorySamples : chk_memory(x)},
        c \in {x \in 1..MaxHostCores : chk_cores(x)},
        b \in {0, 1}, e \in {0, 1} :
       host = [host_name |-> "bullock", host_memory |-> m, host_cores |-> c,
               last_vendor_id |-> 0, last_subject_id |-> 0,
               is_64bit |-> b, is_enabled |-> e]
  /\ image_enabled \in EnabledSamples
  /\ subject_enabled \in SubjectEnabledSamples
  /\ subject_last = [s \in SubjectIds |-> 0]
  /\ host_done = [k \in DOMAIN HostScheduleRows |-> 0]
  /\ subject_done = [k \in DOMAIN SubjectScheduleRows |-> 0]
  /\ command \in [name : {"hostprep", "subjectprep"}, host : {""}]
  /\ pc = "idle"
  /\ schedule = "host"
  /\ gsubject = NoSubject
  /\ resources = NoResources
  /\ tests = <<>>
  /\ vendor = 0
  /\ err = ""
  /\ finalized = 0
  /\ before = [host_last_vendor |-> 0, host_last_subject |-> 0,
               subject_last |-> [s \in SubjectIds |-> 0],
               host_done |-> [k \in DOMAIN HostScheduleRows |-> 0],
               subject_done |-> [k \in DOMAIN SubjectScheduleRows |-> 0]]
  /\ db = EmptyDb

\* a generator of the database with two hosts that was not constructed yet
IdleRun == [pc |-> "idle", id |-> 0, resources |-> NoResources,
            tests |-> <<>>, vendor |-> 0, err |-> ""]

\* the two hosts after "hostadd": pointers 0, nothing done
NewPairStore == [last |-> [h \in PairIds |-> 0],
                 done |-> [k \in DOMAIN PairScheduleRows |-> 0]]

\* no run on the two hosts
NoPair ==
  /\ cstore = NewPairStore
  /\ crun = [h \in PairIds |-> IdleRun]
  /\ cref = [h \in PairIds |-> [s |-> NewPairStore, diverged |-> FALSE]]

\* the arguments of hostprep
PrepArgs == <<"bullock", "uruk">>
PrepHosts == {PrepArgs[i] : i \in DOMAIN PrepArgs}

\* do_command before its first argument, no thread created
NewPrep == [arg |-> 1, environment |-> "", failed |-> 0, threads |-> <<>>,
            started |-> 0, result |-> ""]
NoThread == [kind |-> "", state |-> "none", stage |-> 0]

\* gen_precondition_xen has returned nothing yet
NoPrecondition == [made |-> FALSE, guests |-> <<>>]

\* the four lists of get_test, empty
EmptyBuckets == [smallup |-> {}, smallsmp |-> {}, bigup |-> {}, bigsmp |-> {}]

\* get_test has fetched nothing
NoWeigh == [state |-> "none", memory |-> 0, cores |-> 0, rows |-> {},
            buckets |-> EmptyBuckets, test |-> 0]

\* no preparation thread runs
NoPipeline == [kind |-> "none", stage |-> 0]

\* no subjectstate command has run: no queue is active
NoQueue == [active |-> [s \in SubjectIds |-> 0], op |-> "none", subject |-> 0,
            was |-> 0, error |-> ""]

NoExtra ==
  /\ precondition = NoPrecondition
  /\ weigh = NoWeigh
  /\ pipeline = NoPipeline
  /\ queue = NoQueue

\* hostprep not called; every host answers as a Xen host of the database
NoPrep ==
  /\ world = [h \in PrepHosts |->
                [probe |-> "xen", resolves |-> TRUE, indb |-> TRUE]]
  /\ prep = NewPrep
  /\ thread = [h \in PrepHosts |-> NoThread]

Init == InitStore /\ hist = NoHistory(FALSE) /\ NoPair /\ NoPrep /\ NoExtra

\* hosts whose memory leaves room for one guest, or for one or two
RotationMemory == {2100, 3072}

\* the same database, with the observer of the finalized runs switched on
InitRotation ==
  /\ InitStore
  /\ host.host_memory \in RotationMemory
  /\ hist = NoHistory(TRUE)
  /\ NoPair
  /\ NoPrep
  /\ NoExtra

(* ------------------------------- inputs -------------------------------- *)

HostNames == {"bullock", "nohost"}
\* subject argument of the constructor; "False" is the default False
SubjectArgs == {"False", "xen-unstable", "kvm"}
\* bitness argument; the default False equals 0 in Python
BitnessArgs == {0, 1}

(* ------------------------------- actions ------------------------------- *)

\* get_host_info: resources as loaded from the host row
HostResources ==
  [memory |-> host.host_memory - HostReserve,
   cores |-> host.host_cores + ExtraCores,
   bitness |-> host.is_64bit,
   lastvendor |-> host.last_vendor_id,
   lastsubject |-> host.last_subject_id]

\* mutant of HostError: the state of the host is not looked at
HostError_IgnoresState(hostname) ==
  IF hostname # host.host_name THEN "No such host." ELSE ""

\* get_host_info: the message of the ValueError it raises, "" when it returns
HostError(hostname) ==
  IF hostname # host.host_name THEN "No such host."
  ELSE IF host.is_enabled # 1 THEN "The chosen host is currently disabled."
  ELSE ""

\* get_subject_info: the subjects `result` can be, {} when it raises
SubjectChoices(subj, bitness) ==
  IF subj = "False" /\ bitness = 0
  THEN {AutoSubject(host.last_subject_id)} \ {0}
  ELSE IF subj # "False" /\ bitness \in {0, 1}
       THEN NamedSubjects(subj, bitness)
       ELSE {}

\* get_subject_info: the message of the ValueError it raises
SubjectError(subj, bitness) ==
  IF subj = "False" /\ bitness = 0 THEN "Nothing to do."
  ELSE IF subj # "False" /\ bitness \in {0, 1} THEN "No such test subject."
  ELSE "Test subject or bitness not specified."

\* the constructor raised with self.schedule = sch: no generator object
\* exists
ConstructFails(msg, sch) ==
  /\ pc' = "failed"
  /\ err' = msg
  /\ schedule' = sch
  /\ gsubject' = NoSubject
  /\ resources' = NoResources

\* TestRunGenerator.__init__ up to the call of gen_tests
Construct(hostname, auto, subj, bitness) ==
  /\ pc \in {"idle", "finalized", "failed", "aborted"}
  /\ UNCHANGED others
  /\ auto = (command.name = "subjectprep")
  /\ tests' = <<>>
  /\ vendor' = 0
  /\ finalized' = 0
  /\ before' = Snapshot
  /\ hist' = IF pc \in {"failed", "aborted"}
             THEN [hist EXCEPT !.streak = NoStreak] ELSE hist
  /\ command' = [command EXCEPT !.host = hostname]
  /\ UNCHANGED store
  /\ IF HostError(hostname) # ""
     THEN ConstructFails(HostError(hostname), "host")
     ELSE IF auto = FALSE
     THEN /\ schedule' = "host"
          /\ gsubject' = NoSubject
          /\ resources' = HostResources
          /\ pc' = "loop"
          /\ err' = ""
     ELSE IF SubjectChoices(subj, bitness) = {}
     THEN ConstructFails(SubjectError(subj, bitness), "subject")
     ELSE \E s \in SubjectChoices(subj, bitness) :
            /\ schedule' = "subject"
            /\ gsubject' = [id |-> s, bitness |-> subject[s].is_64bit]
            /\ resources' = [HostResources EXCEPT
                               !.lastvendor = subject_last[s],
                               !.bitness = subject[s].is_64bit]
            /\ pc' = "loop"
            /\ err' = ""

\* gen_tests: the while condition is false
GenTestsExit ==
  /\ pc = "loop"
  /\ UNCHANGED others
  /\ ~(resources.memory >= MinGuestMem /\ resources.cores > 0)
  /\ pc' = "generated"
  /\ UNCHANGED <<store, command, schedule, gsubject, resources, tests,
                 vendor, err, finalized, before, hist>>

\* mutant of NoTestOutcome: continue instead of break
NoTestOutcome_Continue(accepted) == IF accepted = 0 THEN "failed" ELSE "loop"

\* mutant of NoTestOutcome: the raise no longer depends on len(self.tests)
NoTestOutcome_AlwaysRaise(accepted) == "failed"

\* gen_tests, get_test returned None: raise when nothing was accepted, else break
NoTestOutcome(accepted) == IF accepted = 0 THEN "failed" ELSE "generated"

\* gen_tests enters the loop body; get_test calls get_vendor
GetVendor ==
  /\ pc = "loop"
  /\ UNCHANGED others
  /\ resources.memory >= MinGuestMem /\ resources.cores > 0
  /\ LET v == FindVendor(schedule, idvalue, imagevalue, resources.lastvendor)
     IN  IF v = 0
         THEN \* get_test returns None: raise or break
              /\ pc' = NoTestOutcome(Len(tests))
              /\ err' = IF NoTestOutcome(Len(tests)) = "failed"
                        THEN "Nothing to do." ELSE err
              /\ UNCHANGED <<store, resources, vendor>>
         ELSE IF UnlockFails(schedule, idvalue, DoneOf(schedule), v, imagevalue)
         THEN \* random.choice([]) raises IndexError
              /\ pc' = "failed"
              /\ err' = "IndexError"
              /\ UNCHANGED <<store, resources, vendor>>
         ELSE \E nd \in FairnessOutcomes(schedule, idvalue, DoneOf(schedule),
                                         v, imagevalue) :
                /\ IF schedule = "host"
                   THEN /\ host_done' = nd
                        /\ host' = [host EXCEPT !.last_vendor_id = v]
                        /\ UNCHANGED <<image_enabled, subject_enabled,
                                       subject_done, subject_last>>
                   ELSE /\ subject_done' = nd
                        /\ subject_last' = [subject_last EXCEPT ![idvalue] = v]
                        /\ UNCHANGED <<image_enabled, subject_enabled,
                                       host_done, host>>
                /\ resources' = [resources EXCEPT !.lastvendor = v]
                /\ vendor' = v
                /\ pc' = "get_test"
                /\ err' = err
  /\ UNCHANGED <<command, schedule, gsubject, tests, finalized, before,
                 hist>>

\* the rest of get_test, then get_test_config and the append of gen_tests
GetTest ==
  /\ pc = "get_test"
  /\ UNCHANGED others
  /\ LET rows == FlagQuery(schedule, idvalue, DoneOf(schedule), 0, vendor,
                           imagevalue)
         b == Buckets(schedule, rows)
         testlist == do_weighing(resources.memory, resources.cores,
                                 b.smallup, b.smallsmp, b.bigup, b.bigsmp)
     IN  IF testlist = {}
         THEN \* random.choice([]) raises IndexError
              /\ pc' = "failed"
              /\ err' = "IndexError"
              /\ UNCHANGED <<resources, tests>>
         ELSE \E k \in testlist :
              \E c \in CoresChoices(resources.cores,
                                    image[SchedRows(schedule)[k].image_id].is_smp) :
              \E m \in MemoryChoices(resources.memory,
                                     image[SchedRows(schedule)[k].image_id].is_bigmem) :
                /\ tests' = Append(tests, TestDict(schedule, k, c, m,
                                                   resources.bitness, Len(tests)))
                /\ resources' = [resources EXCEPT !.cores = @ - c,
                                                  !.memory = @ - m]
                /\ pc' = "loop"
                /\ err' = err
  /\ UNCHANGED <<store, command, schedule, gsubject, vendor, finalized,
                 before, hist>>

\* mutant of Abort: the failing pipeline still marks its tests as done
Abort_MarksDone ==
  /\ pc = "generated"
  /\ UNCHANGED others
  /\ pc' = "aborted"
  /\ err' = "stage failed"
  /\ IF schedule = "host"
     THEN /\ host_done' = [k \in DOMAIN host_done |->
                             IF \E i \in 1..Len(tests) : tests[i].id = k
                             THEN 1 ELSE host_done[k]]
          /\ UNCHANGED subject_done
     ELSE /\ subject_done' = [k \in DOMAIN subject_done |->
                                IF \E i \in 1..Len(tests) : tests[i].id = k
                                THEN 1 ELSE subject_done[k]]
          /\ UNCHANGED host_done
  /\ UNCHANGED <<host, image_enabled, subject_enabled, subject_last,
                 command, schedule, gsubject, resources, tests, vendor,
                 finalized, before, hist>>

\* a preparation stage after generation fails: error_handler ends the
\* pipeline and do_finalize is not reached
Abort ==
  /\ pc = "generated"
  /\ UNCHANGED others
  /\ pc' = "aborted"
  /\ err' = "stage failed"
  /\ UNCHANGED <<store, command, schedule, gsubject, resources, tests,
                 vendor, finalized, before, hist>>

\* mutant of testids: an empty id list updates every row of the table
testids_AllWhenEmpty ==
  IF tests = <<>> THEN DOMAIN SchedRows(schedule)
  ELSE {tests[i].id : i \in 1..Len(tests)}

\* mutant of testids: the UPDATE selects by target instead of by schedule_id
testids_WholeTarget ==
  {k \in DOMAIN SchedRows(schedule) : SchedRows(schedule)[k].target_id = idvalue}

\* do_finalize: the schedule ids it marks
testids == {tests[i].id : i \in 1..Len(tests)}

\* the observer after do_finalize: the entries marked so far, and the number
\* of consecutive finalized runs that had one candidate of the same vendor
\* for the same target
Observed ==
  IF ~hist.observe \/ pc # "generated" THEN hist
  ELSE [hist EXCEPT
          !.everdone = @ \cup {<<schedule, k>> : k \in testids},
          !.streak =
             IF Len(tests) # 1 THEN NoStreak
             ELSE LET v == VendorOf(schedule, tests[1].id)
                  IN  IF /\ @.schedule = schedule /\ @.target = idvalue
                         /\ @.vendor = v
                      THEN [@ EXCEPT !.runs = IF @ < MaxStreak THEN @ + 1 ELSE @]
                      ELSE [schedule |-> schedule, target |-> idvalue,
                            vendor |-> v, runs |-> 1]]

\* do_finalize
DoFinalize ==
  /\ pc \in {"generated", "finalized"}
  /\ UNCHANGED others
  /\ finalized < MaxFinalize
  /\ IF schedule = "host"
     THEN /\ host_done' = [k \in DOMAIN host_done |->
                             IF k \in testids THEN 1 ELSE host_done[k]]
          /\ UNCHANGED <<subject_done, host>>
     ELSE /\ subject_done' = [k \in DOMAIN subject_done |->
                                IF k \in testids THEN 1 ELSE subject_done[k]]
          /\ host' = [host EXCEPT !.last_subject_id = gsubject.id]
          /\ UNCHANGED host_done
  /\ tests' = <<>>
  /\ pc' = "finalized"
  /\ finalized' = finalized + 1
  /\ hist' = Observed
  /\ UNCHANGED <<image_enabled, subject_enabled, subject_last, command,
                 schedule, gsubject, resources, vendor, err, before>>

Next ==
  \/ \E hostname \in HostNames, auto \in BOOLEAN,
        subj \in SubjectArgs, bitness \in BitnessArgs :
       Construct(hostname, auto, subj, bitness)
  \/ GenTestsExit
  \/ GetVendor
  \/ GetTest
  \/ Abort
  \/ DoFinalize

Spec == Init /\ [][Next]_vars

\* the program with the observer of the finalized runs
RotationSpec == InitRotation /\ [][Next]_vars

\* the generator runs in one thread: a step of gen_tests that can be taken
\* is taken
FairSpec ==
  Spec /\ WF_vars(GenTestsExit) /\ WF_vars(GetVendor) /\ WF_vars(GetTest)

TypeOK ==
  /\ pc \in {"idle", "loop", "get_test", "generated", "finalized",
             "failed", "aborted"}
  /\ schedule \in {"host", "subject"}




(* -------------------------- the precondition --------------------------- *)

UpperCase ==
  << "A", "B", "C", "D", "E", "F", "G", "H", "I", "J", "K", "L", "M",
     "N", "O", "P", "Q", "R", "S", "T", "U", "V", "W", "X", "Y", "Z" >>
LowerCase ==
  << "a", "b", "c", "d", "e", "f", "g", "h", "i", "j", "k", "l", "m",
     "n", "o", "p", "q", "r", "s", "t", "u", "v", "w", "x", "y", "z" >>

\* str.lower()
lower(str) ==
  [i \in DOMAIN str |->
     IF \E j \in DOMAIN UpperCase : UpperCase[j] = str[i]
     THEN LowerCase[CHOOSE j \in DOMAIN UpperCase : UpperCase[j] = str[i]]
     ELSE str[i]]

\* str.startswith(prefix)
startswith(str, prefix) ==
  Len(str) >= Len(prefix) /\ SubSeq(str, 1, Len(prefix)) = prefix

windows == <<"w", "i", "n", "d", "o", "w", "s">>

\* config.formats
formats == [raw |-> "tap:aio", qcow |-> "tap:qcow", qcow2 |-> "tap:qcow2"]

\* a dictionary with further keys set
Updated(dict, more) ==
  [k \in DOMAIN dict \cup DOMAIN more |->
     IF k \in DOMAIN more THEN more[k] ELSE dict[k]]

\* gen_guest_configs, one test of a Xen subject: the keys it sets in the
\* dictionary of the test, or the KeyError of formats[...]
gen_guest_configs(t) ==
  IF t.format \notin DOMAIN formats
  THEN [error |-> "KeyError"]
  ELSE [error |-> "",
        test |-> Updated(t, [mntfile |-> <<t.runid, "img">>,
                             format |-> formats[t.format],
                             imgbasename |-> t.image,
                             svmfile |-> <<t.runid, "svm">>])]

\* the keys gen_xen_guest_options reads from the dictionary of a test
OptionKeys ==
  {"image", "mntfile", "svmfile", "testcommand", "ostype", "timeout",
   "runtime", "bitness"}

\* gen_xen_guest_options: reading a key the dictionary does not have
\* raises KeyError
gen_xen_guest_options(t) ==
  IF ~(OptionKeys \subseteq DOMAIN t)
  THEN [error |-> "KeyError"]
  ELSE [error |-> "",
        imagefile |-> t.image, mountfile |-> t.mntfile,
        guest_start_dest |-> t.svmfile,
        used_timeout |-> t.timeout, used_runtime |-> t.runtime,
        testcommand |-> t.testcommand, ostype |-> t.ostype,
        arch |-> IF startswith(lower(t.ostype), windows) THEN "windows"
                 ELSE IF t.bitness = 1 THEN "linux64"
                 ELSE "linux32"]

\* gen_guest_precond for a Xen subject
gen_guest_precond(guest_options) ==
  [root |-> [precondition_type |-> "copyfile",
             name |-> guest_options.imagefile,
             mountfile |-> guest_options.mountfile,
             mounttype |-> IF startswith(lower(guest_options.ostype), windows)
                           THEN "windows" ELSE "raw",
             arch |-> guest_options.arch],
   config |-> [svm |-> guest_options.guest_start_dest],
   testprogram |-> [execname |-> guest_options.testcommand,
                    timeout_testprogram |-> guest_options.used_timeout,
                    runtime |-> guest_options.used_runtime]]

\* SubjectPreparation.gen_precondition_xen on the generated run: the build
\* is not found (ValueError), or the guest configs are written into the
\* dictionaries of the tests and one guest per test is generated
GenPrecondition ==
  /\ pc = "generated" /\ schedule = "subject"
  /\ \/ /\ pc' = "failed"
        /\ err' = "No builds available."
        /\ UNCHANGED <<tests, precondition>>
     \/ LET cfg == [i \in 1..Len(tests) |-> gen_guest_configs(tests[i])]
        IN  IF \E i \in 1..Len(tests) : cfg[i].error # ""
            THEN /\ pc' = "failed"
                 /\ err' = "KeyError"
                 /\ UNCHANGED <<tests, precondition>>
            ELSE LET opts == [i \in 1..Len(tests) |->
                                gen_xen_guest_options(cfg[i].test)]
                 IN  /\ tests' = [i \in 1..Len(tests) |-> cfg[i].test]
                     /\ IF \E i \in 1..Len(tests) : opts[i].error # ""
                        THEN /\ pc' = "failed"
                             /\ err' = "KeyError"
                             /\ UNCHANGED precondition
                        ELSE /\ precondition' =
                                  [made |-> TRUE,
                                   guests |-> [i \in 1..Len(tests) |->
                                                 gen_guest_precond(opts[i])]]
                             /\ UNCHANGED <<pc, err>>
  /\ UNCHANGED <<store, command, schedule, gsubject, resources, vendor,
                 finalized, before, hist, db, pairvars, prepvars, weigh,
                 pipeline, queue>>

PrecondNext == Next \/ GenPrecondition

\* subjectprep and hostprep with the generation of the precondition
PrecondSpec == Init /\ [][PrecondNext]_vars

(* ----------------------------- imagestate ------------------------------ *)

\* FILENAME arguments of the "imagestate" command
StateImages == {"imgB"}

\* Images.state: the is_enabled column after the UPDATE
ImagesState(enabled, imagename, state) ==
  [i \in ImageIds |->
     IF image[i].image_name = imagename THEN state ELSE enabled[i]]

\* the "imagestate" command, run between two test run generations
ImageState(imagename, state) ==
  /\ pc \in {"idle", "finalized", "failed", "aborted"}
  /\ \E i \in ImageIds : image[i].image_name = imagename
  /\ image_enabled' = ImagesState(image_enabled, imagename, state)
  /\ UNCHANGED <<host, subject_enabled, subject_last, host_done,
                 subject_done, command, pc, schedule, gsubject, resources,
                 tests, vendor, err, finalized, before, hist>>
  /\ UNCHANGED others

StateNext ==
  \/ Next
  \/ \E imagename \in StateImages, state \in {0, 1} :
       ImageState(imagename, state)

\* test run generation on a database whose images get disabled and enabled
StateSpec == Init /\ [][StateNext]_vars

(* ------------------ actions of the add and delete commands ------------- *)

\* a command that raises ValueError leaves the tables as they are, so only
\* the calls that pass their checks are steps
Edit(d) == Countable(d) /\ db' = d /\ UNCHANGED <<genvars, pairvars, prepvars, extra>>

HostAdd ==
  \E hostname \in DbHosts \ db.host : Edit(HostsAdd(db, hostname))

HostDel ==
  \E hostname \in db.host : Edit(HostsDelete(db, hostname))

ImageAdd ==
  \E imagename \in DbImages \ DOMAIN db.image,
     vendorname \in db.vendor, ostype \in db.os_type :
    Edit(ImagesAdd(db, imagename, vendorname, ostype))

ImageDel ==
  \E imagename \in DOMAIN db.image : Edit(ImagesDelete(db, imagename))

OsTypeAdd ==
  \E ostype \in DbOsTypes \ db.os_type : Edit(OsTypesAdd(db, ostype))

OsTypeDel ==
  \E ostype \in db.os_type : Edit(OsTypesDelete(db, ostype))

TestAdd ==
  \E t \in DbTests \ db.test :
    t[2] \in db.os_type /\ Edit(TestsAdd(db, t[1], t[2]))

TestDel ==
  \E t \in db.test : Edit(TestsDelete(db, t[1], t[2]))

SubjectAdd ==
  \E s \in DbSubjects \ db.subject : Edit(TestSubjectsAdd(db, s[1], s[2]))

SubjectDel ==
  \E s \in db.subject : Edit(TestSubjectsDelete(db, s[1], s[2]))

VendorAdd ==
  \E vendorname \in DbVendors \ db.vendor : Edit(VendorsAdd(db, vendorname))

VendorDel ==
  \E vendorname \in db.vendor : Edit(VendorsDelete(db, vendorname))

DbNext ==
  \/ HostAdd \/ HostDel \/ ImageAdd \/ ImageDel \/ OsTypeAdd \/ OsTypeDel
  \/ TestAdd \/ TestDel \/ SubjectAdd \/ SubjectDel \/ VendorAdd \/ VendorDel

\* the commands on a database that starts empty, no generation under way
DbInit ==
  /\ Init
  /\ host.host_memory = 1024 /\ host.host_cores = 1
  /\ host.is_64bit = 0 /\ host.is_enabled = 0
  /\ \A i \in ImageIds : image_enabled[i] = 0
  /\ \A x \in SubjectIds : subject_enabled[x] = 0
  /\ command.name = "hostprep"

DbSpec == DbInit /\ [][DbNext]_vars


(* ------------------ two host-mode runs on two hosts -------------------- *)

\* the rows of one host: its pointer and the flags of its schedule entries
OwnRows(s, h) ==
  [last |-> s.last[h],
   done |-> [k \in {x \in DOMAIN PairScheduleRows :
                      PairScheduleRows[x].target_id = h} |-> s.done[k]]]

\* imagevalue of a generator
PairUsed(g) == {g.tests[i].image : i \in 1..Len(g.tests)}

\* __init__ and get_host_info on the database with two hosts
PairInfo(s, h) ==
  {[s |-> s,
    g |-> [pc |-> "loop", id |-> h,
           resources |-> [memory |-> PairHosts[h].host_memory - HostReserve,
                          cores |-> PairHosts[h].host_cores + ExtraCores,
                          bitness |-> PairHosts[h].is_64bit,
                          lastvendor |-> s.last[h],
                          lastsubject |-> 0],
           tests |-> <<>>, vendor |-> 0, err |-> ""]]}

\* gen_tests: the while condition
PairLoop(g) == g.resources.memory >= MinGuestMem /\ g.resources.cores > 0

\* gen_tests: the loop ends, the constructor returns
PairExit(s, g) == {[s |-> s, g |-> [g EXCEPT !.pc = "generated"]]}

\* get_vendor of generator g on store s: the stores and generators it can
\* leave behind
PairVendor(s, g) ==
  LET v == FindVendor("hostpair", g.id, PairUsed(g), g.resources.lastvendor)
  IN  IF v = 0
      THEN {[s |-> s,
             g |-> [g EXCEPT !.pc = NoTestOutcome(Len(g.tests)),
                             !.err = IF NoTestOutcome(Len(g.tests)) = "failed"
                                     THEN "Nothing to do." ELSE @]]}
      ELSE IF UnlockFails("hostpair", g.id, s.done, v, PairUsed(g))
      THEN {[s |-> s, g |-> [g EXCEPT !.pc = "failed", !.err = "IndexError"]]}
      ELSE {[s |-> [s EXCEPT !.done = nd, !.last[g.id] = v],
             g |-> [g EXCEPT !.resources.lastvendor = v, !.vendor = v,
                             !.pc = "get_test"]] :
              nd \in FairnessOutcomes("hostpair", g.id, s.done, v, PairUsed(g))}

\* the rest of get_test, get_test_config and the append of gen_tests
PairTest(s, g) ==
  LET rows == FlagQuery("hostpair", g.id, s.done, 0, g.vendor, PairUsed(g))
      b == Buckets("hostpair", rows)
      testlist == do_weighing(g.resources.memory, g.resources.cores,
                              b.smallup, b.smallsmp, b.bigup, b.bigsmp)
  IN  IF testlist = {}
      THEN {[s |-> s, g |-> [g EXCEPT !.pc = "failed", !.err = "IndexError"]]}
      ELSE UNION {UNION {
             {[s |-> s,
               g |-> [g EXCEPT !.tests = Append(@, TestDict("hostpair", k, c, m,
                                                  g.resources.bitness,
                                                  Len(g.tests))),
                               !.resources.cores = @ - c,
                               !.resources.memory = @ - m,
                               !.pc = "loop"]] :
                m \in MemoryChoices(g.resources.memory,
                                    image[PairScheduleRows[k].image_id].is_bigmem)} :
             c \in CoresChoices(g.resources.cores,
                                image[PairScheduleRows[k].image_id].is_smp)} :
             k \in testlist}

\* do_finalize
PairFinalize(s, g) ==
  {[s |-> [s EXCEPT !.done =
                      [k \in DOMAIN @ |->
                         IF \E i \in 1..Len(g.tests) : g.tests[i].id = k
                         THEN 1 ELSE @[k]]],
    g |-> [g EXCEPT !.tests = <<>>, !.pc = "finalized"]]}

\* the thread of host h takes one of the steps "outs"; the same step is
\* taken on the store of the reference execution of host h when one of its
\* steps there, "refouts", gives the same generator and the same rows of
\* host h
PairStep(h, outs, refouts) ==
  \E o \in outs :
    /\ cstore' = o.s
    /\ crun' = [crun EXCEPT ![h] = o.g]
    /\ LET same == {x \in refouts :
                      x.g = o.g /\ OwnRows(x.s, h) = OwnRows(o.s, h)}
       IN  cref' = [cref EXCEPT ![h] =
                      IF same = {}
                      THEN [@ EXCEPT !.diverged = TRUE]
                      ELSE [@ EXCEPT !.s = (CHOOSE x \in same : TRUE).s]]
    /\ UNCHANGED <<genvars, db, prepvars, extra>>

RunConstruct(h) ==
  /\ crun[h].pc \in {"idle", "finalized", "failed"}
  /\ PairStep(h, PairInfo(cstore, h), PairInfo(cref[h].s, h))

RunGenTestsExit(h) ==
  /\ crun[h].pc = "loop" /\ ~PairLoop(crun[h])
  /\ PairStep(h, PairExit(cstore, crun[h]), PairExit(cref[h].s, crun[h]))

RunGetVendor(h) ==
  /\ crun[h].pc = "loop" /\ PairLoop(crun[h])
  /\ PairStep(h, PairVendor(cstore, crun[h]), PairVendor(cref[h].s, crun[h]))

RunGetTest(h) ==
  /\ crun[h].pc = "get_test"
  /\ PairStep(h, PairTest(cstore, crun[h]), PairTest(cref[h].s, crun[h]))

RunFinalize(h) ==
  /\ crun[h].pc = "generated"
  /\ PairStep(h, PairFinalize(cstore, crun[h]),
              PairFinalize(cref[h].s, crun[h]))

PairNext ==
  \E h \in PairIds :
    \/ RunConstruct(h)
    \/ RunGenTestsExit(h)
    \/ RunGetVendor(h)
    \/ RunGetTest(h)
    \/ RunFinalize(h)

\* the flags the two hosts start from: nothing done, or every entry the
\* queries can select done
PairDone ==
  {[k \in DOMAIN PairScheduleRows |-> 0],
   [k \in DOMAIN PairScheduleRows |->
      IF k \in Matching("hostpair", PairScheduleRows[k].target_id, {})
      THEN 1 ELSE 0]}

\* the store that differs from s in the rows of the other host only: its
\* pointer is on vendor 1 and its flags are the other way round
OtherState(s, h) ==
  [last |-> [x \in PairIds |-> IF x = h THEN s.last[x] ELSE 1],
   done |-> [k \in DOMAIN PairScheduleRows |->
               IF PairScheduleRows[k].target_id = h THEN s.done[k]
               ELSE 1 - s.done[k]]]

\* the two hosts, each with its reference execution, no run started
PairInit ==
  /\ InitStore
  /\ hist = NoHistory(FALSE)
  /\ host.host_memory = 1024 /\ host.host_cores = 1
  /\ host.is_64bit = 0 /\ host.is_enabled = 0
  /\ \E i \in ImageIds : image_enabled[i] = 1
  /\ \A x \in SubjectIds : subject_enabled[x] = 0
  /\ command.name = "hostprep"
  /\ cstore \in [last : {[h \in PairIds |-> 0]}, done : PairDone]
  /\ crun = [h \in PairIds |-> IdleRun]
  /\ cref = [h \in PairIds |->
               [s |-> OtherState(cstore, h), diverged |-> FALSE]]
  /\ NoPrep
  /\ NoExtra

PairSpec == PairInit /\ [][PairNext]_vars


(* ------------------------------ hostprep ------------------------------- *)

\* the stages of XenHostPreparation.run after 'Generating tests'
XenStages ==
  << "Check xend status", "Check for running guests",
     "Cleanup old guest configs, images, and logs",
     "Generate guest configuration files", "Copying testsuite image files",
     "Copying guest image files", "Starting guests" >>

\* the stages of KvmHostPreparation.run after 'Generating tests'
KvmStages ==
  << "Check for kernel modules", "Check for running guests",
     "Cleanup old guest configs, images, and logs",
     "Generate guest start scripts", "Copying testsuite image files",
     "Copying guest image files", "Starting guests" >>

StagesOf(kind) == IF kind = "xen" THEN XenStages ELSE KvmStages

\* what the outside answers for a host: the output of the ssh probe ("down"
\* when ssh returns an error), whether gethostbyname finds the name (ssh
\* cannot reach a name that does not resolve), whether table host has it
Worlds ==
  [PrepHosts ->
     {w \in [probe : {"xen", "kvm", "bare", "down"}, resolves : BOOLEAN,
             indb : BOOLEAN] : ~w.resolves => w.probe = "down"}]

\* do_command, one pass of "for host in args": the probe sets environment
\* only when it answers xen or kvm; environment is not reset between hosts
Detect ==
  /\ prep.arg <= Len(PrepArgs)
  /\ LET h == PrepArgs[prep.arg]
         environment == IF world[h].probe \in {"xen", "kvm"}
                        THEN world[h].probe ELSE prep.environment
     IN  IF environment \in {"xen", "kvm"}
         THEN /\ prep' = [prep EXCEPT !.arg = @ + 1,
                                      !.environment = environment,
                                      !.threads = Append(@, h)]
              /\ thread' = [thread EXCEPT ![h] =
                              [kind |-> environment, state |-> "new",
                               stage |-> 0]]
         ELSE /\ prep' = [prep EXCEPT !.arg = @ + 1, !.failed = 1]
              /\ thread' = thread
  /\ UNCHANGED <<genvars, extra, db, pairvars, world>>

\* do_command, "for thread in threads: thread.start()"
StartThread ==
  /\ prep.arg > Len(PrepArgs)
  /\ prep.started < Len(prep.threads)
  /\ prep' = [prep EXCEPT !.started = @ + 1]
  /\ thread' = [thread EXCEPT ![prep.threads[prep.started + 1]].state =
                                 "running"]
  /\ UNCHANGED <<genvars, extra, db, pairvars, world>>

Terminated == {"done", "exited", "died"}

\* do_command: every join has returned, the command ends
Join ==
  /\ prep.arg > Len(PrepArgs)
  /\ prep.started = Len(prep.threads)
  /\ prep.result = ""
  /\ \A i \in 1..Len(prep.threads) :
       thread[prep.threads[i]].state \in Terminated
  /\ prep' = [prep EXCEPT !.result = IF prep.failed = 1 THEN "error" ELSE "ok"]
  /\ UNCHANGED <<genvars, extra, db, pairvars, world, thread>>

\* error_handler in the thread of host h: base.failed = 1, sys.exit(1)
error_handler(h) ==
  /\ prep' = [prep EXCEPT !.failed = 1]
  /\ thread' = [thread EXCEPT ![h].state = "exited"]

\* run, stage 'Generating tests': the constructor of TestRunGenerator
\* raises ValueError (no such host, host disabled, nothing to do), or
\* gethostbyname raises socket.gaierror, which run does not catch, or the
\* tests are generated
Generate(h) ==
  /\ thread[h].state = "running" /\ thread[h].stage = 0
  /\ IF ~world[h].indb
     THEN error_handler(h)
     ELSE IF ~world[h].resolves
     THEN /\ thread' = [thread EXCEPT ![h].state = "died"]
          /\ prep' = prep
     ELSE \/ error_handler(h)
          \/ /\ thread' = [thread EXCEPT ![h].stage = 1]
             /\ prep' = prep
  /\ UNCHANGED <<genvars, extra, db, pairvars, world>>

\* run, one of the stages that call do_command: ssh returns 0 or not
Command(h) ==
  /\ thread[h].state = "running"
  /\ thread[h].stage \in 1..Len(StagesOf(thread[h].kind))
  /\ \/ /\ thread' = [thread EXCEPT ![h].stage = @ + 1]
        /\ prep' = prep
     \/ error_handler(h)
  /\ UNCHANGED <<genvars, extra, db, pairvars, world>>

\* run: do_finalize and the "done" message
Finish(h) ==
  /\ thread[h].state = "running"
  /\ thread[h].stage = Len(StagesOf(thread[h].kind)) + 1
  /\ thread' = [thread EXCEPT ![h].state = "done"]
  /\ UNCHANGED <<genvars, extra, db, pairvars, world, prep>>

PrepNext ==
  \/ Detect
  \/ StartThread
  \/ Join
  \/ \E h \in PrepHosts : Generate(h) \/ Command(h) \/ Finish(h)

\* hostprep called with the two hosts, whatever they answer
PrepInit ==
  /\ InitStore
  /\ hist = NoHistory(FALSE)
  /\ host.host_memory = 1024 /\ host.host_cores = 1
  /\ host.is_64bit = 0 /\ host.is_enabled = 0
  /\ \A i \in ImageIds : image_enabled[i] = 0
  /\ \A x \in SubjectIds : subject_enabled[x] = 0
  /\ command.name = "hostprep"
  /\ NoPair
  /\ world \in Worlds
  /\ prep = NewPrep
  /\ thread = [h \in PrepHosts |-> NoThread]
  /\ NoExtra

PrepSpec == PrepInit /\ [][PrepNext]_vars

(* ------------------------- get_test, the pick -------------------------- *)

\* remaining memory when a candidate is picked: below, at and above 4096
WeighMemory == {1024, 4096, 4352}

\* remaining cores when a candidate is picked
WeighCores == 1..(MaxHostCores + ExtraCores)

\* the schedule rows of the host whose image has the flags (bigmem, smp)
ClassRows(bigmem, smp) ==
  {k \in DOMAIN HostScheduleRows :
     /\ image[HostScheduleRows[k].image_id].is_bigmem = bigmem
     /\ image[HostScheduleRows[k].image_id].is_smp = smp}

\* result sets of the query of get_test for the chosen vendor: its vendor
\* has any of the images
FetchedInputs ==
  [state : {"fetched"}, memory : WeighMemory, cores : WeighCores,
   rows : (SUBSET DOMAIN HostScheduleRows) \ {{}},
   buckets : {EmptyBuckets}, test : {0}]

\* arguments of a call of do_weighing with lists sorted by the flags
CalledInputs ==
  [state : {"called"}, memory : WeighMemory, cores : WeighCores,
   rows : {{}},
   buckets : [smallup : SUBSET ClassRows(0, 0),
              smallsmp : SUBSET ClassRows(0, 1),
              bigup : SUBSET ClassRows(1, 0),
              bigsmp : SUBSET ClassRows(1, 1)],
   test : {0}]

\* get_test: the while loop that appends the fetched rows to the lists
GetTestSplit ==
  /\ weigh.state = "fetched"
  /\ weigh' = [weigh EXCEPT !.state = "split",
                            !.buckets = Buckets("host", weigh.rows)]
  /\ UNCHANGED <<genvars, db, pairvars, prepvars, precondition, pipeline,
                 queue>>

\* do_weighing: random.choice(testlist), IndexError on an empty list
DoWeighing ==
  /\ weigh.state \in {"split", "called"}
  /\ LET testlist == do_weighing(weigh.memory, weigh.cores,
                                 weigh.buckets.smallup, weigh.buckets.smallsmp,
                                 weigh.buckets.bigup, weigh.buckets.bigsmp)
     IN  IF testlist = {}
         THEN weigh' = [weigh EXCEPT !.state = "IndexError"]
         ELSE \E t \in testlist :
                weigh' = [weigh EXCEPT !.state = "picked", !.test = t]
  /\ UNCHANGED <<genvars, db, pairvars, prepvars, precondition, pipeline,
                 queue>>

WeighNext == GetTestSplit \/ DoWeighing

WeighInit ==
  /\ InitStore
  /\ hist = NoHistory(FALSE)
  /\ host.host_memory = 1024 /\ host.host_cores = 1
  /\ host.is_64bit = 0 /\ host.is_enabled = 0
  /\ \A i \in ImageIds : image_enabled[i] = 0
  /\ \A x \in SubjectIds : subject_enabled[x] = 0
  /\ command.name = "hostprep"
  /\ NoPair
  /\ NoPrep
  /\ precondition = NoPrecondition
  /\ pipeline = NoPipeline
  /\ queue = NoQueue
  /\ weigh \in FetchedInputs \cup CalledInputs

WeighSpec == WeighInit /\ [][WeighNext]_vars

(* ------------------- subjectprep without a subject --------------------- *)

\* TestRunGenerator(hostname, True): subject and bitness keep their default
AutoConstruct(hostname) == Construct(hostname, TRUE, "False", 0)

AutoNext ==
  \/ \E hostname \in HostNames : AutoConstruct(hostname)
  \/ GenTestsExit
  \/ GetVendor
  \/ GetTest
  \/ Abort
  \/ DoFinalize

\* an enabled host and two enabled subjects, after "subjectstate ... enable"
AutoInit ==
  /\ \E m \in RotationMemory, b \in {0, 1} :
       host = [host_name |-> "bullock", host_memory |-> m, host_cores |-> 1,
               last_vendor_id |-> 0, last_subject_id |-> 0,
               is_64bit |-> b, is_enabled |-> 1]
  /\ image_enabled \in EnabledSamples
  /\ subject_enabled = [s \in SubjectIds |-> 1]
  /\ subject_last = [s \in SubjectIds |-> 0]
  /\ host_done = [k \in DOMAIN HostScheduleRows |-> 0]
  /\ subject_done = [k \in DOMAIN SubjectScheduleRows |-> 0]
  /\ command = [name |-> "subjectprep", host |-> ""]
  /\ pc = "idle"
  /\ schedule = "host"
  /\ gsubject = NoSubject
  /\ resources = NoResources
  /\ tests = <<>>
  /\ vendor = 0
  /\ err = ""
  /\ finalized = 0
  /\ before = Snapshot
  /\ db = EmptyDb
  /\ hist = NoHistory(FALSE)
  /\ NoPair
  /\ NoPrep
  /\ NoExtra

AutoSpec == AutoInit /\ [][AutoNext]_vars

(* ------------------- the run of a preparation thread ------------------- *)

\* run, stage 'Generating tests': TestRunGenerator(self.host)
PipelineGenerate(hostname) ==
  /\ pipeline.stage = 0
  /\ Construct(hostname, FALSE, "False", 0)

\* run, a stage after the generation: every do_command of the stage returns
PipelineStage ==
  /\ pc = "generated"
  /\ pipeline.stage < Len(StagesOf(pipeline.kind))
  /\ pipeline' = [pipeline EXCEPT !.stage = @ + 1]
  /\ UNCHANGED <<genvars, db, pairvars, prepvars, precondition, weigh,
                 queue>>

\* run, a stage after the generation: a do_command of the stage fails,
\* error_handler ends the thread
PipelineFail ==
  /\ pipeline.stage < Len(StagesOf(pipeline.kind))
  /\ Abort

\* run: self.testrun.do_finalize() after 'Starting guests'
PipelineFinalize ==
  /\ pc = "generated"
  /\ pipeline.stage = Len(StagesOf(pipeline.kind))
  /\ DoFinalize

\* the thread has ended; the next hostprep starts a new one
PipelineEnd ==
  /\ pc \in {"finalized", "aborted"}
  /\ pipeline.stage # 0
  /\ pipeline' = [pipeline EXCEPT !.stage = 0]
  /\ UNCHANGED <<genvars, db, pairvars, prepvars, precondition, weigh,
                 queue>>

PipelineNext ==
  \/ \E hostname \in HostNames : PipelineGenerate(hostname)
  \/ GenTestsExit
  \/ GetVendor
  \/ GetTest
  \/ PipelineStage
  \/ PipelineFail
  \/ PipelineFinalize
  \/ PipelineEnd

\* hostprep for a host whose probe answered xen or kvm
PipelineInit ==
  /\ InitStore
  /\ command.name = "hostprep"
  /\ \A x \in SubjectIds : subject_enabled[x] = 0
  /\ hist = NoHistory(FALSE)
  /\ NoPair
  /\ NoPrep
  /\ precondition = NoPrecondition
  /\ weigh = NoWeigh
  /\ queue = NoQueue
  /\ pipeline \in [kind : {"xen", "kvm"}, stage : {0}]

PipelineSpec == PipelineInit /\ [][PipelineNext]_vars

(* ---------------------------- subjectstate ----------------------------- *)

\* what a call of the external queue can do: return, or fail with the
\* ValueError the commands of this program report their errors with
QueueOutcomes == {"ok", "ValueError"}

\* mutant of SubjectsEnable: the except clause is missing
SubjectsEnable_NoRollback(enabled, s, outcome) == [enabled EXCEPT ![s] = 1]

\* TestSubjects.__enable: the is_enabled column it leaves behind
SubjectsEnable(enabled, s, outcome) ==
  LET updated == [enabled EXCEPT ![s] = 1]
  IN  IF outcome = "ok" THEN updated ELSE [updated EXCEPT ![s] = 0]

\* TestSubjects.__disable: the is_enabled column it leaves behind
SubjectsDisable(enabled, s, outcome) ==
  IF outcome = "ok" THEN [enabled EXCEPT ![s] = 0] ELSE enabled

\* the "subjectstate" command for an existing subject, run between two test
\* run generations
SubjectState(s, state, outcome) ==
  /\ pc \in {"idle", "finalized", "failed", "aborted"}
  /\ subject_enabled' = IF state = 1
                        THEN SubjectsEnable(subject_enabled, s, outcome)
                        ELSE SubjectsDisable(subject_enabled, s, outcome)
  /\ queue' = [active |-> IF outcome = "ok"
                          THEN [queue.active EXCEPT ![s] = state]
                          ELSE queue.active,
               op |-> IF state = 1 THEN "enable" ELSE "disable",
               subject |-> s,
               was |-> subject_enabled[s],
               error |-> IF outcome = "ok" THEN "" ELSE outcome]
  /\ UNCHANGED <<host, image_enabled, subject_last, host_done, subject_done,
                 command, pc, schedule, gsubject, resources, tests, vendor,
                 err, finalized, before, hist>>
  /\ UNCHANGED <<db, pairvars, prepvars, precondition, weigh, pipeline>>

SubjectStateNext ==
  \E s \in SubjectIds, state \in {0, 1}, outcome \in QueueOutcomes :
    SubjectState(s, state, outcome)

SubjectStateSpec == Init /\ [][SubjectStateNext]_vars

(* ------------------------------ properties ----------------------------- *)

RECURSIVE SumMemoryOf(_)
SumMemoryOf(seq) ==
  IF seq = <<>> THEN 0 ELSE Head(seq).memory + SumMemoryOf(Tail(seq))

RECURSIVE SumCoresOf(_)
SumCoresOf(seq) ==
  IF seq = <<>> THEN 0 ELSE Head(seq).cores + SumCoresOf(Tail(seq))

SumMemory == SumMemoryOf(tests)
SumCores == SumCoresOf(tests)

\* a generator exists and has not been finalized
Generating == pc \in {"loop", "get_test", "generated"}

\* C1: for every run that generation returns, the memory assigned to the
\* guests plus the 1024 MB reservation does not exceed the host's memory,
\* and the remaining-memory counter is not negative (the claim as stated,
\* for every accepted host memory)
C1_MemoryBound ==
  /\ pc = "generated" => SumMemory + HostReserve <= host.host_memory
  /\ Generating => resources.memory >= 0

\* C2: for every run that generation returns, the cores assigned to the
\* guests sum to at most host_cores + 1, and the remaining-cores counter is
\* never negative
C2_CoresBound ==
  /\ Generating => SumCores <= host.host_cores + ExtraCores
  /\ resources.cores >= 0

\* C2 witness: a returned run of two guests, one of them with two cores,
\* that uses every core slot of the host
C2_Witness ==
  /\ pc = "generated"
  /\ Len(tests) = 2
  /\ \E i \in 1..Len(tests) : tests[i].cores >= 2
  /\ SumCores = host.host_cores + ExtraCores

\* C3: every memory value the sizing step assigns is a multiple of 256, at
\* least 1024 and at most the memory remaining when the candidate was sized
\* (the claim as stated)
C3_SizingGranularity ==
  [][Len(tests') = Len(tests) + 1 =>
       /\ tests'[Len(tests')].memory % MemStep = 0
       /\ tests'[Len(tests')].memory >= MinGuestMem
       /\ tests'[Len(tests')].memory <= resources.memory]_vars

\* C4: within the candidate list of one run no two candidates have the same
\* image name
C4_NoDuplicateImages ==
  \A i, j \in 1..Len(tests) : i # j => tests[i].image # tests[j].image

\* C4 witness: a returned run with two candidates of the same vendor, whose
\* image imgA has two schedule entries
C4_Witness ==
  /\ pc = "generated"
  /\ Len(tests) = 2
  /\ \A i \in 1..Len(tests) :
       image[SchedRows(schedule)[tests[i].id].image_id].vendor_id = 1

\* last_vendor_id of the row the generator schedules for
TargetLastVendor ==
  IF schedule = "host" THEN host.last_vendor_id ELSE subject_last[idvalue]

\* no enabled, bitness-compatible image that is unused in this run is
\* scheduled for the target: get_vendor returns 0 and get_test returns None
NoCandidate == Matching(schedule, idvalue, imagevalue) = {}

LoopCondition == resources.memory >= MinGuestMem /\ resources.cores > 0

\* C5: gen_tests terminates: each accepted candidate lowers the remaining
\* memory by at least 1024 and the remaining cores by at least 1, an
\* iteration that finds no candidate leaves the loop, and a generator in the
\* loop reaches the end of gen_tests (returned or raised)
C5_Termination ==
  /\ [][Len(tests') = Len(tests) + 1 =>
          /\ resources'.memory <= resources.memory - MinGuestMem
          /\ resources'.cores <= resources.cores - 1]_vars
  /\ [][(pc = "loop" /\ LoopCondition /\ NoCandidate) =>
          pc' \in {"generated", "failed"}]_vars
  /\ (pc \in {"loop", "get_test"}) ~> (pc \in {"generated", "failed"})

\* C5 witness: the loop ended after two accepted candidates because no core
\* slot was left
C5_Witness ==
  /\ pc = "generated"
  /\ Len(tests) = 2
  /\ resources.cores = 0
  /\ resources.memory >= MinGuestMem

\* C6 as stated: when a run ends without do_finalize (a stage failed, or
\* generation raised), the persisted flags and pointers are what they were
\* before the run
C6_AbortRestoresStore ==
  pc \in {"aborted", "failed"} => Snapshot = before

\* C6 amended: when a run ends without do_finalize, no is_done flag has gone
\* from 0 to 1 and last_subject is unchanged; when a stage fails after
\* generation returned candidates, the last_vendor pointer of the target is
\* the vendor of the last accepted candidate
C6_AbortMarksNothingDone ==
  /\ pc \in {"aborted", "failed"} =>
       /\ \A k \in DOMAIN host_done : host_done[k] <= before.host_done[k]
       /\ \A k \in DOMAIN subject_done :
            subject_done[k] <= before.subject_done[k]
       /\ host.last_subject_id = before.host_last_subject
  /\ (pc = "aborted" /\ Len(tests) > 0) =>
       TargetLastVendor = VendorOf(schedule, tests[Len(tests)].id)

\* C6 witness: an aborted run that advanced last_vendor and reset a flag
C6_Witness ==
  /\ pc = "aborted"
  /\ schedule = "host"
  /\ host.last_vendor_id # before.host_last_vendor
  /\ \E k \in DOMAIN host_done : before.host_done[k] = 1 /\ host_done[k] = 0

\* C7: a second do_finalize on the same generator changes nothing in the
\* store (is_done flags, last_vendor and last_subject pointers)
C7_FinalizeIdempotent ==
  [][(pc = "finalized" /\ pc' = "finalized" /\ finalized' = finalized + 1) =>
       UNCHANGED <<host, subject_last, host_done, subject_done>>]_vars

\* C7 witness: do_finalize was called twice on a run that marked an entry
\* and left another entry of the table not done
C7_Witness ==
  /\ pc = "finalized"
  /\ finalized = 2
  /\ schedule = "host"
  /\ \E k \in DOMAIN host_done : before.host_done[k] = 0 /\ host_done[k] = 1
  /\ \E k \in DOMAIN host_done : host_done[k] = 0

\* C8: do_finalize sets is_done on exactly the entries of the accepted
\* candidates in the table of the mode, changes no other entry and no
\* last_vendor, sets last_subject to the run's subject in subject mode and
\* leaves it in host mode, and empties the candidate list
C8_FinalizeFrame ==
  [][(pc = "generated" /\ pc' = "finalized") =>
       /\ tests' = <<>>
       /\ subject_last' = subject_last
       /\ host'.last_vendor_id = host.last_vendor_id
       /\ IF schedule = "host"
          THEN /\ \A k \in DOMAIN host_done :
                    host_done'[k] =
                      IF \E i \in 1..Len(tests) : tests[i].id = k
                      THEN 1 ELSE host_done[k]
               /\ subject_done' = subject_done
               /\ host'.last_subject_id = host.last_subject_id
          ELSE /\ \A k \in DOMAIN subject_done :
                    subject_done'[k] =
                      IF \E i \in 1..Len(tests) : tests[i].id = k
                      THEN 1 ELSE subject_done[k]
               /\ host_done' = host_done
               /\ host'.last_subject_id = gsubject.id]_vars

\* C8 witness: a finalized subject-mode run that marked an entry, left
\* another one not done and moved last_subject
C8_Witness ==
  /\ pc = "finalized"
  /\ schedule = "subject"
  /\ host.last_subject_id = gsubject.id
  /\ before.host_last_subject # gsubject.id
  /\ \E k \in DOMAIN subject_done :
       before.subject_done[k] = 0 /\ subject_done[k] = 1
  /\ \E k \in DOMAIN subject_done :
       SubjectScheduleRows[k].target_id = gsubject.id /\ subject_done[k] = 0

\* an iteration of gen_tests finds no candidate
NoCandidateIteration == pc = "loop" /\ LoopCondition /\ NoCandidate

\* a step that ends generation with ValueError('Nothing to do.')
RaisesNothingToDo == pc' = "failed" /\ err' = "Nothing to do."

\* the automatic subject selection of get_subject_info finds no enabled
\* subject with schedule entries, before gen_tests is entered
NoSubjectToSelect ==
  /\ pc \in {"idle", "finalized", "failed", "aborted"}
  /\ command.name = "subjectprep"
  /\ AutoSubject(host.last_subject_id) = 0

\* C9 as stated: generation fails with 'Nothing to do.' only in an iteration
\* that finds no candidate while nothing has been accepted; when no
\* candidate is found after at least one was accepted the run ends
\* successfully with the candidates accepted so far
C9_NothingToDoOnlyInLoop ==
  [][/\ RaisesNothingToDo => (NoCandidateIteration /\ Len(tests) = 0)
     /\ (NoCandidateIteration /\ Len(tests) > 0) =>
          (pc' = "generated" /\ tests' = tests /\ err' = "")]_vars

\* C9 amended: generation fails with 'Nothing to do.' only when the
\* automatic subject selection finds no enabled subject, or in an iteration
\* that finds no candidate while nothing has been accepted; when no
\* candidate is found after at least one was accepted the run ends
\* successfully with the candidates accepted so far
C9_NothingToDo ==
  [][/\ RaisesNothingToDo =>
          \/ NoCandidateIteration /\ Len(tests) = 0
          \/ NoSubjectToSelect
     /\ (NoCandidateIteration /\ Len(tests) > 0) =>
          (pc' = "generated" /\ tests' = tests /\ err' = "")]_vars

\* C9 witness: a run returned two candidates although memory and a core
\* slot were left, because no further candidate was found
C9_Witness ==
  /\ pc = "generated"
  /\ err = ""
  /\ Len(tests) = 2
  /\ LoopCondition
  /\ NoCandidate

\* the target has a schedule entry with an enabled, bitness-compatible image
\* and at least 1024 MB remain after the reservation
HasWork ==
  /\ host.host_memory - HostReserve >= MinGuestMem
  /\ Matching(schedule, idvalue, {}) # {}

\* C10: when the target has an entry with an enabled, bitness-compatible
\* image and 1024 MB remain after the reservation, generation does not fail
\* and returns at least one candidate, whatever the is_done flags are
C10_ExhaustedRotationNeverBlocks ==
  HasWork =>
    /\ pc = "generated" => Len(tests) >= 1
    /\ ~(pc = "failed" /\ err \in {"Nothing to do.", "IndexError"})

\* C10 witness: a run returned a candidate although every eligible entry of
\* the target was done when the run started
C10_Witness ==
  /\ pc = "generated"
  /\ schedule = "host"
  /\ HasWork
  /\ Len(tests) >= 1
  /\ \A k \in Matching(schedule, idvalue, {}) : before.host_done[k] = 1

\* the schedule entries of the observed vendor that the queries can select
\* for the observed target (image enabled and bitness-compatible)
StreakEntries ==
  {k \in Matching(hist.streak.schedule, hist.streak.target, {}) :
     VendorOf(hist.streak.schedule, k) = hist.streak.vendor}

EligibleVendors ==
  {image[r.image_id].vendor_id :
     r \in {SchedRows(schedule)[k] : k \in
              {j \in DOMAIN SchedRows(schedule) :
                 /\ SchedRows(schedule)[j].target_id = idvalue
                 /\ image_enabled[SchedRows(schedule)[j].image_id] = 1
                 /\ image[SchedRows(schedule)[j].image_id].is_64bit
                      <= TargetBit(schedule, idvalue)
                 /\ image[SchedRows(schedule)[j].image_id].image_name
                      \notin imagevalue}}}

Max(S) == CHOOSE x \in S : \A y \in S : x >= y

\* gen_tests is about to call get_test, which calls get_vendor
VendorSelection == pc = "loop" /\ LoopCondition

\* C12: when last_vendor is the largest vendor id with eligible work, the
\* vendor selection returns the smallest eligible vendor id; it returns
\* 'no vendor' only when no vendor has an eligible, non-excluded image
C12_Wraparound ==
  [][VendorSelection =>
       /\ (EligibleVendors # {} /\ resources.lastvendor = Max(EligibleVendors))
            => (pc' = "get_test" /\ vendor' = Min(EligibleVendors))
       /\ pc' # "get_test" => EligibleVendors = {}]_vars

\* C12 witness: the previous run left last_vendor at 2, the largest eligible
\* vendor of a 64-bit host, and the first selection of this run returned 1
C12_Witness ==
  /\ pc = "get_test"
  /\ schedule = "host"
  /\ Len(tests) = 0
  /\ before.host_last_vendor = 2
  /\ host.is_64bit = 1
  /\ image_enabled[3] = 1
  /\ vendor = 1

\* the eligible vendors that have a not-yet-done entry of an eligible,
\* unused image for the target
OpenVendors ==
  {v \in EligibleVendors :
     \E k \in DOMAIN SchedRows(schedule) :
       /\ SchedRows(schedule)[k].target_id = idvalue
       /\ image[SchedRows(schedule)[k].image_id].vendor_id = v
       /\ image_enabled[SchedRows(schedule)[k].image_id] = 1
       /\ image[SchedRows(schedule)[k].image_id].is_64bit
            <= TargetBit(schedule, idvalue)
       /\ image[SchedRows(schedule)[k].image_id].image_name \notin imagevalue
       /\ DoneOf(schedule)[k] = 0}

\* the smallest member of S greater than last, or the smallest member of S
NextAfter(S, last) ==
  IF {v \in S : v > last} # {} THEN Min({v \in S : v > last}) ELSE Min(S)

\* C13 as stated: the vendor returned is the next vendor after last_vendor,
\* in circular ascending order, among the vendors that have an enabled,
\* bitness-compatible, unused image with a not-yet-done entry for the target
C13_NextOpenVendor ==
  [][(VendorSelection /\ pc' = "get_test") =>
       /\ OpenVendors # {}
       /\ vendor' = NextAfter(OpenVendors, resources.lastvendor)]_vars

\* C13 amended: the vendor returned is the next vendor after last_vendor, in
\* circular ascending order, among the vendors that have an enabled,
\* bitness-compatible, unused image with a schedule entry for the target,
\* done or not
C13_NextEligibleVendor ==
  [][(VendorSelection /\ pc' = "get_test") =>
       /\ EligibleVendors # {}
       /\ vendor' = NextAfter(EligibleVendors, resources.lastvendor)]_vars

\* C13 witness: the first selection of a run returned vendor 1, whose
\* entries were all done when the run started, although vendor 2 had an
\* entry that was not done
C13_Witness ==
  /\ pc = "get_test"
  /\ schedule = "host"
  /\ Len(tests) = 0
  /\ vendor = 1
  /\ \A k \in Matching("host", HostId, {}) :
       VendorOf("host", k) = 1 => before.host_done[k] = 1
  /\ \E k \in Matching("host", HostId, {}) :
       VendorOf("host", k) = 2 /\ before.host_done[k] = 0

VendorIds == {image[i].vendor_id : i \in ImageIds}

\* the vendors with an enabled, bitness-compatible schedule entry for the
\* target of the run
TargetVendors == {VendorOf(schedule, k) : k \in Matching(schedule, idvalue, {})}

\* C14: every vendor selection returns the next eligible vendor after the
\* persisted last_vendor in circular ascending order and persists it as the
\* new last_vendor; when vendors keep being selected for a target, every
\* vendor with an enabled, bitness-compatible entry for it is selected again
\* and again
C14_VendorRotation ==
  /\ [][(VendorSelection /\ pc' = "get_test") =>
          /\ vendor' = NextAfter(EligibleVendors, TargetLastVendor)
          /\ TargetLastVendor' = vendor']_vars
  /\ \A v \in VendorIds :
       []<>(pc = "get_test") =>
         []<>(pc = "get_test" /\ (vendor = v \/ v \notin TargetVendors))

\* C14 witness: after a candidate of vendor 1 the rotation selected vendor 2
\* in the same run, and both vendors are eligible for the target
C14_Witness ==
  /\ pc = "get_test"
  /\ Len(tests) = 1
  /\ VendorOf(schedule, tests[1].id) = 1
  /\ vendor = 2
  /\ TargetLastVendor = 2
  /\ {1, 2} \subseteq TargetVendors

\* the keys under which a guest descriptor carries the sequence index, image
\* name, image format, test command, cores, memory, shadow memory,
\* nested-paging flag, bitness, MAC address, display number, timeout and
\* runtime (the last two as gen_xen_guest_options reads them)
DescriptorKeys ==
  {"runid", "image", "format", "testcommand", "cores", "memory", "shadowmem",
   "hap", "bitness", "macaddr", "vnc", "timeout", "runtime"}

\* C15: every guest descriptor of a returned run carries the sequence index,
\* image name, image format, test command, cores, memory, shadow memory,
\* nested-paging flag, bitness, MAC address, display number, timeout and
\* runtime
C15_DescriptorFields ==
  pc = "generated" =>
    \A i \in 1..Len(tests) : DescriptorKeys \subseteq DOMAIN tests[i]

\* a step that constructs a generator: a call of the constructor is the only
\* step that leads from a finished run to the loop or to a failure
ConstructStep ==
  /\ pc \in {"idle", "finalized", "failed", "aborted"}
  /\ pc' \in {"loop", "failed"}

TargetBitness ==
  IF schedule = "host" THEN host.is_64bit ELSE subject[gsubject.id].is_64bit

\* C17: every candidate of a run has an enabled image whose bitness is not
\* greater than the bitness of the target (the subject's in subject mode,
\* the host's in host mode)
C17_ImageBitness ==
  \A i \in 1..Len(tests) :
    /\ image_enabled[SchedRows(schedule)[tests[i].id].image_id] = 1
    /\ image[SchedRows(schedule)[tests[i].id].image_id].is_64bit
         <= TargetBitness
    /\ tests[i].bitness <= TargetBitness

\* C17 witness: a run of two candidates on a 32-bit host while the 64-bit
\* image imgC is enabled and scheduled for the host
C17_Witness ==
  /\ pc = "generated"
  /\ schedule = "host"
  /\ host.is_64bit = 0
  /\ image_enabled[3] = 1
  /\ Len(tests) = 2
  /\ \A i \in 1..Len(tests) : tests[i].bitness = 0


\* the schedule rows a (target, test, image) should have: at least one when
\* the three rows exist and test and image share the OS type, none otherwise
EntryExpected(d, targets, k) ==
  /\ k[1] \in targets
  /\ k[2] \in d.test
  /\ k[3] \in DOMAIN d.image
  /\ d.image[k[3]].os_type = k[2][2]

\* C18: after any sequence of add and delete commands on hosts, subjects,
\* images, tests, vendors and OS types, a schedule entry for (target, test,
\* image) exists if and only if the three rows exist and test and image have
\* the same OS type; so a deleted parent has no entry left, and no entry
\* names a missing row; every image keeps its vendor and its OS type
C18_ScheduleIntegrity ==
  /\ \A k \in HostTriples :
       db.host_schedule[k] > 0 <=> EntryExpected(db, db.host, k)
  /\ \A k \in SubjectTriples :
       db.subject_schedule[k] > 0 <=> EntryExpected(db, db.subject, k)
  /\ \A i \in DOMAIN db.image :
       db.image[i].vendor \in db.vendor /\ db.image[i].os_type \in db.os_type
  /\ \A t \in db.test : t[2] \in db.os_type

\* entries exist for one image while the other image, one of the two
\* subjects and one of the two tests are not (or no longer) in the tables
C18_Witness ==
  /\ DOMAIN db.image = {"imgA"}
  /\ db.host = {"bullock"}
  /\ db.subject = {<<"xen-unstable", 1>>}
  /\ db.test = {<<"CTCS", "Linux">>}
  /\ db.vendor = {"SuSE"}
  /\ db.os_type = {"Linux"}
  /\ db.image["imgA"].vendor = "SuSE"
  /\ db.host_schedule[<<"bullock", <<"CTCS", "Linux">>, "imgA">>] = 1
  /\ db.subject_schedule[<<<<"xen-unstable", 1>>, <<"CTCS", "Linux">>,
                           "imgA">>] = 2


\* C19: for every interleaving of the store operations of two host-mode
\* runs on two distinct hosts, each run's candidates and sizing and each
\* host's flags and pointer are those of an execution in which the run
\* meets the other host's rows in another state, as a serial execution
\* leaves them; and a step of one run leaves the rows of the other host
\* as they are
C19_Serializable ==
  /\ [](\A h \in PairIds :
          /\ ~cref[h].diverged
          /\ OwnRows(cref[h].s, h) = OwnRows(cstore, h))
  /\ [][\A h \in PairIds :
          crun'[h] = crun[h] =>
            /\ OwnRows(cstore', h) = OwnRows(cstore, h)
            /\ cref'[h] = cref[h]]_vars

\* host 2 has finalized a run with vendor 2 while host 1 holds two
\* candidates of a run that is not finalized yet
C19_Witness ==
  /\ crun[1].pc = "generated" /\ Len(crun[1].tests) = 2
  /\ crun[2].pc = "finalized" /\ cstore.last[2] = 2
  /\ \E k \in DOMAIN PairScheduleRows :
       PairScheduleRows[k].target_id = 2 /\ cstore.done[k] = 1
  /\ cref[1].s.last[2] # cstore.last[2]


\* the preparation of host h did not get to its end
HostFailed(h) == thread[h].state \in {"none", "exited", "died"}

\* C20: in hostprep the failure of one host's pipeline does not stop or
\* alter the pipelines of the other hosts (a step of one thread leaves the
\* other threads as they are, and when the command ends every thread has
\* run to its completion or failure), and the command reports failure if
\* and only if at least one host failed
C20_FailureIsolation ==
  /\ [](prep.result # "" =>
          /\ \A h \in PrepHosts : thread[h].state \in Terminated \cup {"none"}
          /\ prep.result = "error" <=> \E h \in PrepHosts : HostFailed(h))
  /\ [][\A h \in PrepHosts :
          (thread[h].state = "running" /\ thread'[h] # thread[h]) =>
            \A g \in PrepHosts \ {h} : thread'[g] = thread[g]]_vars


\* gen_precondition_xen has run on the generated tests and found the build
PreconditionStep ==
  /\ pc = "generated" /\ schedule = "subject"
  /\ pc' = "failed" \/ precondition' # precondition
  /\ err' # "No builds available."

\* the OS type name of the image of a generated test
OsTypeOf(t) == os_type[image[SchedRows(schedule)[t.id].image_id].os_type_id]

VendorEntries(v) ==
  {k \in DOMAIN SchedRows(schedule) :
     /\ SchedRows(schedule)[k].target_id = idvalue
     /\ VendorOf(schedule, k) = v}

ImageNameOf(k) == image[SchedRows(schedule)[k].image_id].image_name

\* the vendor selection of this step returned a vendor
VendorReturned == VendorSelection /\ pc' = "get_test"

\* the is_done column of the schedule table of the run after the step
NextDone == IF schedule = "host" THEN host_done' ELSE subject_done'

\* the is_done column of the other schedule table is left alone
OtherTableUnchanged ==
  IF schedule = "host" THEN subject_done' = subject_done
  ELSE host_done' = host_done

\* C22: when the not-done entries of the chosen vendor for the target all
\* belong to images already used in this run (and there is one), the
\* fairness step resets exactly one entry to not-done; that entry was done,
\* belongs to the chosen vendor and to an image not used in this run, and
\* no other entry changes
C22_UnlockOne ==
  [][(/\ VendorReturned
      /\ \E k \in VendorEntries(vendor') : DoneOf(schedule)[k] = 0
      /\ \A k \in VendorEntries(vendor') :
           DoneOf(schedule)[k] = 0 => ImageNameOf(k) \in imagevalue)
       => /\ \E r \in VendorEntries(vendor') :
               /\ DoneOf(schedule)[r] = 1
               /\ ImageNameOf(r) \notin imagevalue
               /\ NextDone = [DoneOf(schedule) EXCEPT ![r] = 0]
          /\ OtherTableUnchanged]_vars

\* C22 witness: the second selection of a host run returned a vendor whose
\* not-done entries belong to the image picked first; one entry of another
\* image, done when the run started, is not-done now and nothing else
\* changed
C22_Witness ==
  /\ pc = "get_test"
  /\ schedule = "host"
  /\ Len(tests) >= 1
  /\ \E k \in VendorEntries(vendor) :
       host_done[k] = 0 /\ ImageNameOf(k) \in imagevalue
  /\ \E r \in VendorEntries(vendor) :
       /\ before.host_done[r] = 1
       /\ host_done[r] = 0
       /\ ImageNameOf(r) \notin imagevalue
       /\ \A k \in DOMAIN host_done \ {r} : host_done[k] = before.host_done[k]


\* the entries of (target, v) the queries of get_vendor can select when no
\* image is excluded: image enabled and bitness-compatible
SelectableEntries(v) ==
  {k \in VendorEntries(v) :
     /\ image_enabled[SchedRows(schedule)[k].image_id] = 1
     /\ image[SchedRows(schedule)[k].image_id].is_64bit
          <= TargetBit(schedule, idvalue)}

\* C23 as stated: when the chosen vendor has no not-done entry at all for
\* the target, the fairness step resets every done entry for (target,
\* vendor) to not-done and changes no entry of another vendor or target
C23_ResetAllEntries ==
  [][(/\ VendorReturned
      /\ \A k \in VendorEntries(vendor') : DoneOf(schedule)[k] = 1)
       => /\ NextDone = [k \in DOMAIN DoneOf(schedule) |->
                           IF k \in VendorEntries(vendor') THEN 0
                           ELSE DoneOf(schedule)[k]]
          /\ OtherTableUnchanged]_vars

\* C23 amended: when the chosen vendor has no not-done entry for the target
\* whose image is enabled and bitness-compatible, the fairness step resets
\* every done entry for (target, vendor) whose image is enabled and
\* bitness-compatible to not-done, and changes no other entry: none of
\* another vendor, of another target, or of a disabled or incompatible image
C23_ResetSelectableEntries ==
  [][(/\ VendorReturned
      /\ \A k \in SelectableEntries(vendor') : DoneOf(schedule)[k] = 1)
       => /\ NextDone = [k \in DOMAIN DoneOf(schedule) |->
                           IF k \in SelectableEntries(vendor') THEN 0
                           ELSE DoneOf(schedule)[k]]
          /\ OtherTableUnchanged]_vars

\* C23 witness: the first selection of a host run returned a vendor whose
\* selectable entries were all done when the run started and are not-done
\* now, while a done entry of this vendor with a disabled image is still
\* done
C23_Witness ==
  /\ pc = "get_test"
  /\ schedule = "host"
  /\ Len(tests) = 0
  /\ SelectableEntries(vendor) # {}
  /\ \A k \in SelectableEntries(vendor) :
       before.host_done[k] = 1 /\ host_done[k] = 0
  /\ \E k \in VendorEntries(vendor) \ SelectableEntries(vendor) :
       before.host_done[k] = 1 /\ host_done[k] = 1


\* the persisted tables except the last_vendor columns
FlagsAndStates ==
  <<host_done, subject_done, image_enabled, subject_enabled,
    host.host_name, host.host_memory, host.host_cores, host.is_64bit,
    host.is_enabled, host.last_subject_id>>

\* C24 as stated: when the chosen vendor has a not-done entry whose image is
\* not used in this run, the vendor selection resets no is_done flag; its
\* only store effect is the last_vendor update
C24_NoResetWithOpenEntry ==
  [][(/\ VendorReturned
      /\ \E k \in VendorEntries(vendor') :
           DoneOf(schedule)[k] = 0 /\ ImageNameOf(k) \notin imagevalue)
       => FlagsAndStates' = FlagsAndStates]_vars

\* C24 amended: when the chosen vendor has a not-done entry whose image is
\* enabled, bitness-compatible and not used in this run, the vendor
\* selection resets no is_done flag; its only store effect is the
\* last_vendor update
C24_NoResetWithSelectableEntry ==
  [][(/\ VendorReturned
      /\ \E k \in SelectableEntries(vendor') :
           DoneOf(schedule)[k] = 0 /\ ImageNameOf(k) \notin imagevalue)
       => FlagsAndStates' = FlagsAndStates]_vars

\* C24 witness: the second selection of a host run returned a vendor that
\* has a not-done entry of a selectable image other than the one picked
\* first, next to a done entry, and no flag differs from the start of the
\* run
C24_Witness ==
  /\ pc = "get_test"
  /\ schedule = "host"
  /\ Len(tests) = 1
  /\ \E k \in SelectableEntries(vendor) :
       host_done[k] = 0 /\ ImageNameOf(k) \notin imagevalue
  /\ \E k \in SelectableEntries(vendor) : host_done[k] = 1
  /\ host_done = before.host_done
  /\ host.last_vendor_id = vendor


\* the persisted last_vendor_id columns of tables host and subject
LastVendors == <<host.last_vendor_id, subject_last>>

\* C25: when vendor selection returns a vendor v the persisted last_vendor
\* of the active target (the host row in host mode, the subject row in
\* subject mode) equals v and the last_vendor of every other row is
\* unchanged; when it returns 'no vendor' no last_vendor changes, and no
\* other operation writes last_vendor
C25_LastVendorPersisted ==
  [][/\ VendorReturned =>
          IF schedule = "host"
          THEN /\ host'.last_vendor_id = vendor'
               /\ subject_last' = subject_last
          ELSE /\ subject_last'[gsubject.id] = vendor'
               /\ \A s \in SubjectIds \ {gsubject.id} :
                    subject_last'[s] = subject_last[s]
               /\ host'.last_vendor_id = host.last_vendor_id
     /\ ~VendorReturned => LastVendors' = LastVendors]_vars

\* C25 witness: a selection of a subject run returned a vendor other than
\* the one the subject row held when the run started; the subject row holds
\* it now, the host row and the other subject row hold what they held
C25_Witness ==
  /\ pc = "get_test"
  /\ schedule = "subject"
  /\ gsubject.id = 2
  /\ vendor # before.subject_last[gsubject.id]
  /\ subject_last[gsubject.id] = vendor
  /\ subject_last[1] = before.subject_last[1]
  /\ subject_last[1] # vendor
  /\ host.last_vendor_id = before.host_last_vendor
  /\ host.last_vendor_id # vendor


\* C26: the rows get_test fetched are split into four pairwise disjoint
\* lists: each row is in exactly one list, the one of its (is_bigmem,
\* is_smp) flags, and the lists handed to do_weighing hold no other row
C26_DisjointBuckets ==
  weigh.state = "split" =>
    /\ weigh.buckets.smallup = weigh.rows \cap ClassRows(0, 0)
    /\ weigh.buckets.smallsmp = weigh.rows \cap ClassRows(0, 1)
    /\ weigh.buckets.bigup = weigh.rows \cap ClassRows(1, 0)
    /\ weigh.buckets.bigsmp = weigh.rows \cap ClassRows(1, 1)

\* C27: when a row is picked while more than 4096 MB and more than one core
\* remain and the fetched rows of the vendor hold a row that is both bigmem
\* and SMP, the row get_test returns is both bigmem and SMP
C27_BigSmpPreferred ==
  (/\ weigh.state = "picked"
   /\ weigh.rows # {}
   /\ weigh.memory > 4096 /\ weigh.cores > 1
   /\ weigh.rows \cap ClassRows(1, 1) # {})
    => weigh.test \in ClassRows(1, 1)

\* the first rule of the priority list that matches
FirstRule(memory, cores, b) ==
  IF memory > 4096 /\ (b.bigup \cup b.bigsmp) # {}
  THEN IF cores > 1 /\ b.bigsmp # {} THEN "1a"
       ELSE IF cores = 1 /\ b.bigup # {} THEN "1b"
       ELSE "1c"
  ELSE IF cores > 1 /\ b.smallsmp # {} THEN "2"
  ELSE IF cores > 1 /\ b.smallup # {} THEN "3"
  ELSE IF cores > 1 /\ b.bigsmp # {} THEN "4"
  ELSE IF cores = 1 /\ b.smallup # {} THEN "5"
  ELSE IF cores = 1 /\ b.bigup # {} THEN "6"
  ELSE IF cores = 1 /\ b.smallsmp # {} THEN "7"
  ELSE "8"

\* the list, or union of lists, a rule names
RuleBucket(rule, b) ==
  CASE rule \in {"1a", "4"} -> b.bigsmp
    [] rule \in {"1b", "6"} -> b.bigup
    [] rule = "1c" -> b.bigup \cup b.bigsmp
    [] rule \in {"2", "7"} -> b.smallsmp
    [] rule \in {"3", "5"} -> b.smallup
    [] rule = "8" -> b.smallup \cup b.smallsmp \cup b.bigup \cup b.bigsmp

\* do_weighing has returned or raised
Weighed == weigh.state \in {"picked", "IndexError"}

\* C28: for every remaining memory, every number of remaining cores >= 1
\* and every four lists of which one is not empty, do_weighing returns a
\* member of the list (or union of lists) named by the first matching rule
\* of the priority list; it does not fail and returns no row from outside
\* the four lists
C28_WeighingRules ==
  (/\ Weighed
   /\ weigh.cores >= 1
   /\ weigh.buckets # EmptyBuckets)
    => /\ weigh.state = "picked"
       /\ weigh.test \in
            RuleBucket(FirstRule(weigh.memory, weigh.cores, weigh.buckets),
                       weigh.buckets)
       /\ weigh.test \in weigh.buckets.smallup \cup weigh.buckets.smallsmp
                           \cup weigh.buckets.bigup \cup weigh.buckets.bigsmp

\* C28 witness: with more than one core, memory that is not above 4096 and
\* both small lists filled, the call returned a small SMP row, rule 2
C28_Witness ==
  /\ weigh.state = "picked"
  /\ weigh.rows = {}
  /\ weigh.memory <= 4096 /\ weigh.cores > 1
  /\ weigh.buckets.smallup # {} /\ weigh.buckets.smallsmp # {}
  /\ weigh.buckets.bigup # {} /\ weigh.buckets.bigsmp # {}
  /\ weigh.test \in weigh.buckets.smallsmp


\* get_test returned a candidate, get_test_config sized it and gen_tests
\* appended it
CandidateSized == pc = "get_test" /\ Len(tests') = Len(tests) + 1

\* C29: a candidate gets exactly 1 core when one core remains or when its
\* image is not SMP-capable; otherwise it gets between 2 and the number of
\* cores remaining at that moment, inclusive
C29_CoreAssignment ==
  [][CandidateSized =>
       LET t == tests'[Len(tests')]
       IN  IF resources.cores = 1 \/ image[SchedRows(schedule)[t.id].image_id].is_smp = 0
           THEN t.cores = 1
           ELSE t.cores >= 2 /\ t.cores <= resources.cores]_vars

\* C29 witness: an SMP candidate was sized with three cores remaining and
\* got two of them
C29_Witness ==
  /\ pc = "loop"
  /\ Len(tests) = 1
  /\ image[SchedRows(schedule)[tests[1].id].image_id].is_smp = 1
  /\ tests[1].cores = 2
  /\ resources.cores = 1

\* C30: a candidate whose image is not bigmem-capable is never assigned
\* more than 4096 MB, whatever memory remains; a bigmem-capable candidate
\* sized while more than 4096 MB remain is assigned at least 4096 MB
C30_MemoryAssignment ==
  [][CandidateSized =>
       LET t == tests'[Len(tests')]
           bigmem == image[SchedRows(schedule)[t.id].image_id].is_bigmem
       IN  /\ bigmem = 0 => t.memory <= 4096
           /\ (bigmem = 1 /\ resources.memory > 4096) => t.memory >= 4096]_vars

\* C30 witness: with 4352 MB remaining a candidate that is not bigmem was
\* assigned 4096 MB
C30_Witness ==
  /\ pc = "loop"
  /\ Len(tests) = 1
  /\ host.host_memory - HostReserve = 4352
  /\ image[SchedRows(schedule)[tests[1].id].image_id].is_bigmem = 0
  /\ tests[1].memory = 4096


\* C31: the nested-paging flag of a candidate is 0 exactly when its
\* assigned memory is greater than 3840 MB and the target is 32-bit, and 1
\* in every other case; 3840 MB on a 32-bit target gives 1
C31_NestedPaging ==
  [][CandidateSized =>
       LET t == tests'[Len(tests')]
       IN  t.hap = IF t.memory > 3840 /\ TargetBit(schedule, idvalue) = 0
                   THEN 0 ELSE 1]_vars

\* C31 witness: a candidate of a 32-bit host was assigned exactly 3840 MB
\* and has the flag set
C31_Witness ==
  /\ pc = "loop"
  /\ schedule = "host"
  /\ host.is_64bit = 0
  /\ Len(tests) = 1
  /\ tests[1].memory = 3840
  /\ tests[1].hap = 1


\* round(n / d) of the exact quotient of two positive integers, halves
\* rounded away from zero as Python's round does
RoundedQuotient(n, d) == (2 * n + d) \div (2 * d)

\* C32: the shadow memory of every candidate equals its assigned memory
\* times 10 divided by 1024, rounded to the nearest integer
C32_ShadowMemory ==
  [][CandidateSized =>
       LET t == tests'[Len(tests')]
       IN  t.shadowmem = RoundedQuotient(t.memory * 10, 1024)]_vars


\* C33: in a run of n candidates the i-th accepted candidate (0-based) has
\* display number i, run id i+1 and a MAC address whose last octet is i+1
\* and whose fourth and fifth octets are the third and fourth number of the
\* IPv4 address of the host; display numbers, run ids and MAC addresses
\* are pairwise distinct within the run and the first run id is 1
C33_SequenceIndices ==
  /\ \A i \in 1..Len(tests) :
       /\ tests[i].vnc = i - 1
       /\ tests[i].runid = i
       /\ Len(tests[i].macaddr) = 6
       /\ tests[i].macaddr[6] = i
       /\ tests[i].macaddr[4] = HostIp[3]
       /\ tests[i].macaddr[5] = HostIp[4]
  /\ \A i, j \in 1..Len(tests) :
       i # j => /\ tests[i].vnc # tests[j].vnc
                /\ tests[i].runid # tests[j].runid
                /\ tests[i].macaddr # tests[j].macaddr
  /\ Len(tests) >= 1 => tests[1].runid = 1

\* C33 witness: a generated run with two candidates; the second has
\* display number 1, run id 2 and 2 as the last octet of its MAC address
C33_Witness ==
  /\ pc = "generated"
  /\ Len(tests) = 2
  /\ tests[2].vnc = 1
  /\ tests[2].runid = 2
  /\ tests[2].macaddr = <<82, 84, 0, 7, 42, 2>>


\* the enabled subjects that have schedule entries
RotationSubjects ==
  {s \in SubjectIds :
     /\ subject_enabled[s] = 1
     /\ \E k \in DOMAIN SubjectScheduleRows :
          SubjectScheduleRows[k].target_id = s}

\* the constructor found the subject of the run
SubjectChosen ==
  /\ pc \in {"idle", "finalized", "failed", "aborted"}
  /\ pc' = "loop"
  /\ schedule' = "subject"

\* do_finalize is called
FinalizeCall == pc \in {"generated", "finalized"} /\ finalized' = finalized + 1

\* C34: with no subject given the chosen subject is the enabled subject with
\* schedule entries that has the smallest id greater than last_subject of
\* the host, or the smallest such subject when none is greater; do_finalize
\* stores the subject of the run as last_subject, so the finalized runs of
\* a host visit these subjects in circular id order, and a step that is not
\* a do_finalize call leaves last_subject as it is
C34_SubjectRotation ==
  [][/\ SubjectChosen =>
          /\ RotationSubjects # {}
          /\ gsubject'.id = NextAfter(RotationSubjects, host.last_subject_id)
     /\ (FinalizeCall /\ pc = "generated") =>
          /\ gsubject.id = NextAfter(RotationSubjects, host.last_subject_id)
          /\ host'.last_subject_id = gsubject.id
     /\ ~FinalizeCall => host'.last_subject_id = host.last_subject_id]_vars

\* C34 witness: the run finalized before this one was of subject 2 and
\* this finalized run wrapped around to subject 1
C34_Witness ==
  /\ pc = "finalized"
  /\ before.host_last_subject = 2
  /\ host.last_subject_id = 1
  /\ Cardinality(RotationSubjects) = 2


\* an entry of one of the schedule tables goes from not-done to done
MarkedDone ==
  \/ \E k \in DOMAIN host_done : host_done[k] = 0 /\ host_done'[k] = 1
  \/ \E k \in DOMAIN subject_done :
       subject_done[k] = 0 /\ subject_done'[k] = 1

\* C35: in a host preparation pipeline do_finalize runs only after the
\* generation and every later stage have succeeded, in their order; when a
\* command of a stage fails do_finalize is not called for that run and none
\* of the entries of the run is marked done
C35_FinalizeAfterAllStages ==
  /\ [][/\ FinalizeCall =>
             /\ pc = "generated"
             /\ pipeline.stage = Len(StagesOf(pipeline.kind))
        /\ pipeline'.stage # pipeline.stage =>
             \/ pc = "generated" /\ pipeline'.stage = pipeline.stage + 1
             \/ pc \in {"finalized", "aborted"} /\ pipeline'.stage = 0
        /\ MarkedDone => FinalizeCall
        /\ pc = "aborted" => ~FinalizeCall /\ ~MarkedDone]_vars
  /\ [](pc = "aborted" =>
          \A i \in 1..Len(tests) : DoneOf(schedule)[tests[i].id] = 0)

\* C35 witness: the fourth stage of a run with two guests failed: the
\* thread has ended and the entries of both guests are not done
C35_Witness ==
  /\ pc = "aborted"
  /\ pipeline.stage = 3
  /\ Len(tests) = 2
  /\ \A i \in 1..Len(tests) : host_done[tests[i].id] = 0


C37_OneEntryPerTriple ==
  /\ \A k \in HostTriples : db.host_schedule[k] <= 1
  /\ \A k \in SubjectTriples : db.subject_schedule[k] <= 1

\* the rows of the candidate query of get_test for the vendor returned
CandidateRows ==
  FlagQuery(schedule, idvalue, DoneOf(schedule), 0, vendor, imagevalue)

\* the vendor the next call of get_vendor finds
NextVendor == FindVendor(schedule, idvalue, imagevalue, resources.lastvendor)

\* the next call of get_vendor takes the branch that unlocks one done entry
UnlockBranch ==
  /\ pc = "loop" /\ LoopCondition
  /\ NextVendor # 0
  /\ FlagQuery(schedule, idvalue, DoneOf(schedule), 0, NextVendor,
               imagevalue) = {}
  /\ FlagQuery(schedule, idvalue, DoneOf(schedule), 0, NextVendor, {}) # {}

\* C38: whenever vendor selection returns a vendor, the candidate query that
\* follows for that vendor returns at least one row and the list the picker
\* chooses from is not empty, and the done entries the unlock branch chooses
\* from are not empty: random.choice never gets an empty list
C38_NeverEmptyChoice ==
  /\ pc = "get_test" =>
       /\ CandidateRows # {}
       /\ LET b == Buckets(schedule, CandidateRows)
          IN  do_weighing(resources.memory, resources.cores,
                          b.smallup, b.smallsmp, b.bigup, b.bigsmp) # {}
  /\ UnlockBranch =>
       FlagQuery(schedule, idvalue, DoneOf(schedule), 1, NextVendor,
                 imagevalue) # {}
  /\ ~(pc = "failed" /\ err = "IndexError")

\* C38 witness: the vendor of the first candidate was returned again, its
\* entry for the image in use is still open, and the candidate query returns
\* an entry that was done when the run began: the unlock branch chose it
C38_Witness ==
  /\ pc = "get_test"
  /\ schedule = "host"
  /\ Len(tests) = 1
  /\ VendorOf(schedule, tests[1].id) = vendor
  /\ before.host_done[tests[1].id] = 0
  /\ \E r \in CandidateRows : before.host_done[r] = 1 /\ host_done[r] = 0

\* C39: every generation that ends without an error returns at least one
\* candidate, for every host the catalog accepts (memory from 1024 MB, cores
\* from 1)
C39_NonEmptyRun ==
  (pc = "generated" /\ chk_memory(host.host_memory)
                    /\ chk_cores(host.host_cores)) =>
    Len(tests) >= 1

\* C40: in hostprep a host whose probe fails or answers anything other than
\* 'xen' or 'kvm' gets no preparation thread and marks the command as
\* failed, whatever the hosts before it answered; a host gets a Xen (KVM)
\* pipeline only if its own probe answered 'xen' ('kvm')
C40_OwnProbeDecides ==
  \A i \in 1..(prep.arg - 1) :
    LET h == PrepArgs[i]
    IN  /\ world[h].probe \notin {"xen", "kvm"} =>
             thread[h] = NoThread /\ prep.failed = 1
        /\ thread[h].kind \in {"xen", "kvm"} =>
             world[h].probe = thread[h].kind

====
